---- MODULE Spec2Model ----
(***************************************************************************)
(* A model of cmder: the getopt-style flag parser (getopt.PosixFlagSet /   *)
(* flag.FlagSet), the call-stack builder (buildCallStack, parseArgs) and   *)
(* the lifecycle executor (Execute, execute, onInit, run, onDestroy).      *)
(*                                                                         *)
(* A command-line token is a sequence of one-character strings, so that    *)
(* prefix cuts, the split at '=' and the character-by-character scan of a  *)
(* short-flag cluster are computed as the code computes them.              *)
(***************************************************************************)
EXTENDS Integers, Sequences, FiniteSets, TLC

\* ------------------------------------------------------------------------
\* Bounds of the model
\* ------------------------------------------------------------------------

\* longest argument vector (besides the documented examples) given to Execute
MaxArgs == 3

\* longest argument vector given to a stand-alone flag set
MaxParseArgs == 3
MaxHelpArgs == 3
MaxLeafArgs == 3
MaxEnvArgs == 3

\* the most flags registered with one flag set by calls of Var, and the longest
\* argument vector given to its Parse
MaxFlags == 2
MaxFlagArgs == 3

\* the longest text given to Set of a MapVar
MaxMapText == 5

\* the longest argument vector given to buildCallStack for the tree with cycles
MaxBuildArgs == 3

\* the longest argument vector parsed by a flag set with hidden flags
MaxHideArgs == 3

\* ------------------------------------------------------------------------
\* Strings
\* ------------------------------------------------------------------------

RECURSIVE SeqsUpTo(_, _)
SeqsUpTo(S, n) ==
    IF n = 0 THEN {<<>>}
    ELSE LET shorter == SeqsUpTo(S, n - 1)
         IN shorter \cup {Append(s, x) : s \in {t \in shorter : Len(t) = n - 1}, x \in S}

HasPrefix(s, prefix) ==
    /\ Len(prefix) <= Len(s)
    /\ SubSeq(s, 1, Len(prefix)) = prefix

\* strings.CutPrefix
CutPrefix(s, prefix) ==
    IF HasPrefix(s, prefix)
    THEN [after |-> SubSeq(s, Len(prefix) + 1, Len(s)), found |-> TRUE]
    ELSE [after |-> s, found |-> FALSE]

\* strings.Cut with a one-character separator: split around its first occurrence
Cut(s, sep) ==
    IF \E i \in 1..Len(s) : s[i] = sep
    THEN LET i == CHOOSE k \in 1..Len(s) : s[k] = sep /\ \A j \in 1..(k - 1) : s[j] # sep
         IN [before |-> SubSeq(s, 1, i - 1), after |-> SubSeq(s, i + 1, Len(s)), found |-> TRUE]
    ELSE [before |-> s, after |-> <<>>, found |-> FALSE]

IsSuffix(t, s) ==
    /\ Len(t) <= Len(s)
    /\ SubSeq(s, Len(s) - Len(t) + 1, Len(s)) = t

\* ------------------------------------------------------------------------
\* Characters and the order of strings
\* ------------------------------------------------------------------------

LowerCase == <<"a", "b", "c", "d", "e", "f", "g", "h", "i", "j", "k", "l", "m",
               "n", "o", "p", "q", "r", "s", "t", "u", "v", "w", "x", "y", "z">>
UpperCase == <<"A", "B", "C", "D", "E", "F", "G", "H", "I", "J", "K", "L", "M",
               "N", "O", "P", "Q", "R", "S", "T", "U", "V", "W", "X", "Y", "Z">>
Digits == <<"0", "1", "2", "3", "4", "5", "6", "7", "8", "9">>

\* the characters of names and of flag values, in the order of their bytes
CharOrder ==
    <<" ", "\"", ",", "-", ".">> \o Digits \o <<"=">> \o UpperCase \o <<"\\", "_">> \o LowerCase

CodeOf == [c \in {CharOrder[i] : i \in 1..Len(CharOrder)} |->
              CHOOSE i \in 1..Len(CharOrder) : CharOrder[i] = c]

Code(c) == CodeOf[c]

\* the order of strings: a < b
RECURSIVE Less(_, _)
Less(a, b) ==
    IF b = <<>> THEN FALSE
    ELSE IF a = <<>> THEN TRUE
    ELSE IF Head(a) # Head(b) THEN Code(Head(a)) < Code(Head(b))
    ELSE Less(Tail(a), Tail(b))

\* slices.Sorted of a set of names
RECURSIVE Sorted(_)

\* the least name m of S, then the others in order
SortedFrom(m, S) == <<m>> \o Sorted(S \ {m})

Sorted(S) ==
    IF S = {} THEN <<>>
    ELSE SortedFrom(CHOOSE m \in S : \A n \in S \ {m} : Less(m, n), S)

\* ------------------------------------------------------------------------
\* Errors
\* ------------------------------------------------------------------------

NoErr == [kind |-> "nil"]

\* flag.ErrHelp
ErrHelp == [kind |-> "ErrHelp"]

\* "flag '-%s' does not exist" / "flag '--%s' does not exist"
ErrNoSuchFlag(spelling) == [kind |-> "does not exist", flag |-> spelling]

\* "missing argument to flag '-%s'" / "missing argument to flag '--%s'"
ErrMissingArg(spelling) == [kind |-> "missing argument", flag |-> spelling]

\* the error of strconv.ParseBool
ErrSyntax(text) == [kind |-> "invalid syntax", value |-> text]

\* ------------------------------------------------------------------------
\* Flag values (flag.Value)
\* ------------------------------------------------------------------------

TextTrue == <<"t", "r", "u", "e">>
TextFalse == <<"f", "a", "l", "s", "e">>

Truthy ==
    { <<"1">>, <<"t">>, <<"T">>, <<"T", "R", "U", "E">>, TextTrue, <<"T", "r", "u", "e">> }

Falsy ==
    { <<"0">>, <<"f">>, <<"F">>, <<"F", "A", "L", "S", "E">>, TextFalse, <<"F", "a", "l", "s", "e">> }

\* boolT.Set followed by boolT.String: the canonical text of the parsed value
boolT_Set(v) ==
    IF v \in Truthy THEN [text |-> TextTrue, err |-> NoErr]
    ELSE IF v \in Falsy THEN [text |-> TextFalse, err |-> NoErr]
    ELSE [text |-> <<>>, err |-> ErrSyntax(v)]

\* stringT.Set
stringT_Set(v) == [text |-> v, err |-> NoErr]

\* uintT.Set followed by uintT.String, for decimal numerals without sign and
\* leading zero, which it keeps, and for texts with a character that is no
\* digit and no letter of a base prefix, which it rejects
uintT_Set(v) ==
    IF v # <<>> /\ (\A i \in 1..Len(v) : v[i] \in {"0", "1", "2", "3", "4", "5", "6", "7", "8", "9"})
         /\ (v[1] # "0" \/ Len(v) = 1)
    THEN [text |-> v, err |-> NoErr]
    ELSE [text |-> <<>>, err |-> ErrSyntax(v)]

UintValue(s) == [kind |-> "uint", text |-> s]
BoolValue(b) == [kind |-> "bool", text |-> IF b THEN TextTrue ELSE TextFalse]
StringValue(s) == [kind |-> "string", text |-> s]

\* ------------------------------------------------------------------------
\* MapVar: a map is the set of its <<key, value>> pairs, one pair per key.
\* getopt.MapVar reads and writes its text with encoding/csv; the MapVar of
\* the flag package's example scans its text character by character and
\* writes values with strconv.Quote.
\* ------------------------------------------------------------------------

Quote == "\""

\* m[k] = v
Put(m, k, v) == {p \in m : p[1] # k} \cup {<<k, v>>}

Keys(m) == {p[1] : p \in m}

\* m[k] for a key of m
At(m, k) == (CHOOSE p \in m : p[1] = k)[2]

\* bytes.IndexByte, counted from 1: 0 if c is not in s
IndexByte(s, c) ==
    IF \E i \in 1..Len(s) : s[i] = c
    THEN CHOOSE i \in 1..Len(s) : s[i] = c /\ \A j \in 1..(i - 1) : s[j] # c
    ELSE 0

ErrBareQuote == [kind |-> "csv", text |-> "bare \" in non-quoted-field"]
ErrQuote == [kind |-> "csv", text |-> "extraneous or missing \" in quoted-field"]

RECURSIVE csvFields(_, _)
RECURSIVE csvQuoted(_, _, _)

\* csv.Reader.readRecord at a field that does not start with a quote: field
\* is the text up to the next comma, or to the end of the line
csvBare(line, i, field, fields) ==
    IF IndexByte(field, Quote) > 0 THEN [fields |-> <<>>, err |-> ErrBareQuote]
    ELSE IF i > 0 THEN csvFields(SubSeq(line, i + 1, Len(line)), Append(fields, field))
    ELSE [fields |-> Append(fields, field), err |-> NoErr]

\* csv.Reader.readRecord: the fields of one line without line break
csvFields(line, fields) ==
    IF line = <<>> \/ Head(line) # Quote
    THEN csvBare(line, IndexByte(line, ","),
                 IF IndexByte(line, ",") > 0 THEN SubSeq(line, 1, IndexByte(line, ",") - 1)
                 ELSE line,
                 fields)
    ELSE csvQuoted(Tail(line), <<>>, fields)

\* csv.Reader.readRecord in a quoted field after a quote was found at i:
\* rest is the text after it
csvAfterQuote(rest, field, fields) ==
    IF rest = <<>> THEN [fields |-> Append(fields, field), err |-> NoErr]
    ELSE IF Head(rest) = Quote THEN csvQuoted(Tail(rest), Append(field, Quote), fields)
    ELSE IF Head(rest) = "," THEN csvFields(Tail(rest), Append(fields, field))
    ELSE [fields |-> <<>>, err |-> ErrQuote]

\* csv.Reader.readRecord inside a quoted field: without a closing quote the
\* line and the input end, which is an error
csvQuoted(line, field, fields) ==
    IF IndexByte(line, Quote) > 0
    THEN csvAfterQuote(SubSeq(line, IndexByte(line, Quote) + 1, Len(line)),
                       field \o SubSeq(line, 1, IndexByte(line, Quote) - 1), fields)
    ELSE [fields |-> <<>>, err |-> ErrQuote]

\* csv.Reader.ReadAll of a text without line break: the empty text has no
\* record, any other text has one
ReadAll(value) ==
    IF value = <<>> THEN [records |-> 0, fields |-> <<>>, err |-> NoErr]
    ELSE [records |-> 1] @@ csvFields(value, <<>>)

ErrMalformedMap(value) == [kind |-> "getopt: malformed map value", text |-> value]

\* the loop of getopt.MapVar.Set over the fields of the record
RECURSIVE SetPairs(_, _)
SetPairs(m, pairs) ==
    IF pairs = <<>> THEN m
    ELSE SetPairs(Put(m, Cut(Head(pairs), "=").before, Cut(Head(pairs), "=").after),
                  Tail(pairs))

getopt_MapVar_Read(m, value, r) ==
    IF r.err # NoErr THEN [m |-> m, err |-> ErrMalformedMap(value)]
    ELSE IF r.records # 1 THEN [m |-> m, err |-> ErrMalformedMap(value)]
    ELSE [m |-> SetPairs(m, r.fields), err |-> NoErr]

\* getopt.MapVar.Set
getopt_MapVar_Set(m, value) == getopt_MapVar_Read(m, value, ReadAll(value))

\* unicode.IsSpace on the characters of the model
IsSpace(c) == c = " "

\* csv.Writer.fieldNeedsQuotes, for fields without line break
fieldNeedsQuotes(field) ==
    IF field = <<>> THEN FALSE
    ELSE IF field = <<"\\", ".">> THEN TRUE
    ELSE IF \E i \in 1..Len(field) : field[i] \in {Quote, ","} THEN TRUE
    ELSE IsSpace(Head(field))

\* the characters of a quoted field as csv.Writer.Write writes them
RECURSIVE csvEscaped(_)
csvEscaped(field) ==
    IF field = <<>> THEN <<>>
    ELSE (IF Head(field) = Quote THEN <<Quote, Quote>> ELSE <<Head(field)>>)
            \o csvEscaped(Tail(field))

csvField(field) ==
    IF fieldNeedsQuotes(field) THEN <<Quote>> \o csvEscaped(field) \o <<Quote>> ELSE field

\* strings.Join(entries, ",")
RECURSIVE JoinEntries(_)
JoinEntries(entries) ==
    IF entries = <<>> THEN <<>>
    ELSE IF Len(entries) = 1 THEN Head(entries)
    ELSE Head(entries) \o <<",">> \o JoinEntries(Tail(entries))

\* csv.Writer.Write of one record, without the line break that String trims
csvWrite(entries) == JoinEntries([i \in 1..Len(entries) |-> csvField(entries[i])])

\* the entries of String for the keys in order: k+"="+m[k]
Entries(m, keys) == [i \in 1..Len(keys) |-> keys[i] \o <<"=">> \o At(m, keys[i])]

\* getopt.MapVar.String
getopt_MapVar_String(m) == csvWrite(Entries(m, Sorted(Keys(m))))

ErrIllegalMapVar(why, pos, value) ==
    [kind |-> "illegal mapvar value", why |-> why, pos |-> pos, text |-> value]

NoPos == -1

\* the state of the scan of MapVar.Set before its first character
ScanStart == [entries |-> {}, quoted |-> FALSE, inValue |-> FALSE, key |-> <<>>, val |-> <<>>,
              err |-> NoErr]

\* one turn of the loop of MapVar.Set: the switch on character c at pos
scanChar(st, c, pos, value) ==
    IF c = Quote /\ ~st.inValue
    THEN [st EXCEPT !.err = ErrIllegalMapVar("quoted key", pos, value)]
    ELSE IF ~st.quoted /\ c = Quote THEN [st EXCEPT !.quoted = TRUE]
    ELSE IF st.quoted /\ c = Quote THEN [st EXCEPT !.quoted = FALSE]
    ELSE IF st.quoted /\ st.inValue THEN [st EXCEPT !.val = Append(@, c)]
    ELSE IF st.quoted /\ ~st.inValue
    THEN [st EXCEPT !.err = ErrIllegalMapVar("quoted key", pos, value)]
    ELSE IF IsSpace(c) THEN st
    ELSE IF ~st.inValue /\ c = ","
    THEN [st EXCEPT !.err = ErrIllegalMapVar("malformed pair missing value", pos, value)]
    ELSE IF st.inValue /\ c = "=" THEN [st EXCEPT !.val = Append(@, c)]
    ELSE IF c = "=" THEN [st EXCEPT !.inValue = TRUE]
    ELSE IF c = ","
    THEN [st EXCEPT !.entries = Put(@, st.key, st.val), !.key = <<>>, !.val = <<>>,
                    !.inValue = FALSE]
    ELSE IF st.inValue THEN [st EXCEPT !.val = Append(@, c)]
    ELSE [st EXCEPT !.key = Append(@, c)]

\* the loop of MapVar.Set from position pos on
RECURSIVE scan(_, _, _)
scan(st, pos, value) ==
    IF st.err # NoErr \/ pos >= Len(value) THEN st
    ELSE scan(scanChar(st, value[pos + 1], pos, value), pos + 1, value)

\* for k, v := range entries { m[k] = v }
Merge(m, entries) == {p \in m : p[1] \notin Keys(entries)} \cup entries

\* MapVar.Set after its loop ended in state st
scanned(m, st, value) ==
    IF st.err # NoErr THEN [m |-> m, err |-> st.err]
    ELSE IF st.quoted
    THEN [m |-> m, err |-> ErrIllegalMapVar("quote mismatch", NoPos, value)]
    ELSE IF ~st.inValue
    THEN [m |-> m, err |-> ErrIllegalMapVar("malformed pair missing value", NoPos, value)]
    ELSE [m |-> Merge(m, Put(st.entries, st.key, st.val)), err |-> NoErr]

\* MapVar.Set of the scanning MapVar
scan_MapVar_Set(m, value) == scanned(m, scan(ScanStart, 0, value), value)

\* strconv.Quote on the characters of the model, which are all printable
RECURSIVE quoteEscaped(_)
quoteEscaped(v) ==
    IF v = <<>> THEN <<>>
    ELSE (IF Head(v) \in {Quote, "\\"} THEN <<"\\", Head(v)>> ELSE <<Head(v)>>)
            \o quoteEscaped(Tail(v))

strconv_Quote(v) == <<Quote>> \o quoteEscaped(v) \o <<Quote>>

\* the entries of String for the keys in order: k+"="+strconv.Quote(m[k])
QuotedEntries(m, keys) ==
    [i \in 1..Len(keys) |-> keys[i] \o <<"=">> \o strconv_Quote(At(m, keys[i]))]

\* MapVar.String of the scanning MapVar
scan_MapVar_String(m) == JoinEntries(QuotedEntries(m, Sorted(Keys(m))))

KindGetopt == "getopt.MapVar"
KindScan == "MapVar"

MapValue(kind, m) == [kind |-> kind, m |-> m]

\* Set of a MapVar instance
MapVar_Set(val, v) ==
    IF val.kind = KindGetopt THEN getopt_MapVar_Set(val.m, v) ELSE scan_MapVar_Set(val.m, v)

\* String of a MapVar instance
MapVar_String(val) ==
    IF val.kind = KindGetopt THEN getopt_MapVar_String(val.m) ELSE scan_MapVar_String(val.m)

MapVar_SetDone(val, r) == [val |-> [val EXCEPT !.m = r.m], err |-> r.err]

\* Value.Set of a value instance: the instance after the call, and the error
Value_Set(val, v) ==
    IF val.kind \in {KindGetopt, KindScan} THEN MapVar_SetDone(val, MapVar_Set(val, v))
    ELSE IF val.kind = "bool"
    THEN [val |-> [val EXCEPT !.text = IF boolT_Set(v).err = NoErr THEN boolT_Set(v).text ELSE @],
          err |-> boolT_Set(v).err]
    ELSE IF val.kind = "uint"
    THEN [val |-> [val EXCEPT !.text = IF uintT_Set(v).err = NoErr THEN uintT_Set(v).text ELSE @],
          err |-> uintT_Set(v).err]
    ELSE [val |-> [val EXCEPT !.text = stringT_Set(v).text], err |-> stringT_Set(v).err]

\* ------------------------------------------------------------------------
\* FlagSet: formal maps a flag name to the value instance it was registered
\* with (two names may share an instance), value holds the instances,
\* actual is the set of names that were set, args the residual, hidden the
\* names of the flags whose value is wrapped in Hidden.
\* ------------------------------------------------------------------------

NewFlagSet(formal, value) ==
    [formal |-> formal, value |-> value, actual |-> {}, args |-> <<>>, parsed |-> FALSE,
     hidden |-> {}]

\* FlagSet.Lookup (as a test: is the name registered)
Lookup(f, name) == name \in DOMAIN f.formal

FlagValue(f, name) == f.value[f.formal[name]]

\* Hide: flg.Value = &Hidden{flg.Value}
Hide(f, name) == [f EXCEPT !.hidden = @ \cup {name}]

\* isHiddenFlag: the type assertion flg.Value.(HiddenFlag)
isHiddenFlag(f, name) == name \in f.hidden

\* isBoolFlag: the type assertion flg.Value.(boolFlag). Hidden embeds the
\* interface flag.Value, so a *Hidden has the methods Set and String of the
\* value it wraps and IsHiddenFlag, and not the IsBoolFlag of a boolean value
isBoolFlag(f, name) == ~isHiddenFlag(f, name) /\ FlagValue(f, name).kind = "bool"

SetValue_KeepFirst(f, name, r) ==
    IF r.err # NoErr
    THEN [fs |-> f, err |-> r.err]
    ELSE IF name \in f.actual THEN [fs |-> f, err |-> NoErr]
    ELSE [fs |-> [f EXCEPT !.value[f.formal[name]] = r.val, !.actual = @ \cup {name}],
          err |-> NoErr]

SetValue_KeepAliased(f, name, r) ==
    IF r.err # NoErr
    THEN [fs |-> f, err |-> r.err]
    ELSE IF \E m \in f.actual : m # name /\ f.formal[m] = f.formal[name]
    THEN [fs |-> [f EXCEPT !.actual = @ \cup {name}], err |-> NoErr]
    ELSE [fs |-> [f EXCEPT !.value[f.formal[name]] = r.val, !.actual = @ \cup {name}],
          err |-> NoErr]

\* FlagSet.Set after the Set of the flag's value returned r
SetValue(f, name, r) ==
    IF r.err # NoErr
    THEN [fs |-> f, err |-> r.err]
    ELSE [fs |-> [f EXCEPT !.value[f.formal[name]] = r.val, !.actual = @ \cup {name}],
          err |-> NoErr]

Set_RecordRejected(f, name, v) ==
    IF ~Lookup(f, name)
    THEN [fs |-> f, err |-> ErrNoSuchFlag(name)]
    ELSE [fs |-> [SetValue(f, name, Value_Set(FlagValue(f, name), v)).fs
                    EXCEPT !.actual = @ \cup {name}],
          err |-> Value_Set(FlagValue(f, name), v).err]

\* FlagSet.Set
Set(f, name, v) ==
    IF ~Lookup(f, name)
    THEN [fs |-> f, err |-> ErrNoSuchFlag(name)]
    ELSE SetValue(f, name, Value_Set(FlagValue(f, name), v))

\* ------------------------------------------------------------------------
\* The POSIX argument parser
\* ------------------------------------------------------------------------

Failed(f, e) == [fs |-> f, arguments |-> <<>>, err |-> e]

\* the parser after FlagSet.Set returned r: on success the scan goes on with rest
AfterSet(r, rest) ==
    IF r.err # NoErr THEN Failed(r.fs, r.err)
    ELSE [fs |-> r.fs, arguments |-> rest, err |-> NoErr]

\* FlagSet.Set called by the parser
SetThen(f, name, v, rest) == AfterSet(Set(f, name, v), rest)

parseLongCut_NextArgument(f, arg, value, inlineVal, arguments) ==
    IF ~Lookup(f, arg) /\ arg = <<"h", "e", "l", "p">> THEN Failed(f, ErrHelp)
    ELSE IF ~Lookup(f, arg) THEN Failed(f, ErrNoSuchFlag(<<"-", "-">> \o arg))
    ELSE IF ~inlineVal /\ Len(arguments) = 0
         THEN Failed(f, ErrMissingArg(<<"-", "-">> \o arg))
    ELSE SetThen(f, arg,
                 IF inlineVal THEN value ELSE Head(arguments),
                 IF ~inlineVal THEN Tail(arguments) ELSE arguments)

parseLongCut_UnknownHelp(f, arg, value, inlineVal, arguments) ==
    IF ~Lookup(f, arg) THEN Failed(f, ErrNoSuchFlag(<<"-", "-">> \o arg))
    ELSE IF ~isBoolFlag(f, arg) /\ ~inlineVal /\ Len(arguments) = 0
         THEN Failed(f, ErrMissingArg(<<"-", "-">> \o arg))
    ELSE SetThen(f, arg,
                 IF inlineVal THEN value
                 ELSE IF isBoolFlag(f, arg) THEN TextTrue ELSE Head(arguments),
                 IF ~isBoolFlag(f, arg) /\ ~inlineVal THEN Tail(arguments) ELSE arguments)

\* PosixFlagSet.parseLong, after the split of the token at its first '='
parseLongCut(f, arg, value, inlineVal, arguments) ==
    IF ~Lookup(f, arg) /\ arg = <<"h", "e", "l", "p">> THEN Failed(f, ErrHelp)
    ELSE IF ~Lookup(f, arg) THEN Failed(f, ErrNoSuchFlag(<<"-", "-">> \o arg))
    ELSE IF ~isBoolFlag(f, arg) /\ ~inlineVal /\ Len(arguments) = 0
         THEN Failed(f, ErrMissingArg(<<"-", "-">> \o arg))
    ELSE SetThen(f, arg,
                 IF inlineVal THEN value
                 ELSE IF isBoolFlag(f, arg) THEN TextTrue ELSE Head(arguments),
                 IF ~isBoolFlag(f, arg) /\ ~inlineVal THEN Tail(arguments) ELSE arguments)

\* PosixFlagSet.parseLong
parseLong(f, long, arguments) ==
    parseLongCut(f, Cut(long, "=").before, Cut(long, "=").after, Cut(long, "=").found,
                 arguments)

RECURSIVE parseShort(_, _, _)

parseShortBool_StopScan(r, rest, arguments) ==
    IF r.err # NoErr THEN Failed(r.fs, r.err)
    ELSE [fs |-> r.fs, arguments |-> arguments, err |-> NoErr]

\* PosixFlagSet.parseShort after Set of a boolean flag returned r: the scan
\* goes on with the rest of the cluster
parseShortBool(r, rest, arguments) ==
    IF r.err # NoErr THEN Failed(r.fs, r.err)
    ELSE parseShort(r.fs, rest, arguments)

\* PosixFlagSet.parseShort: the scan of one short-flag cluster
parseShort(f, short, arguments) ==
    IF Len(short) = 0 THEN [fs |-> f, arguments |-> arguments, err |-> NoErr]
    ELSE LET name == <<Head(short)>>
             rest == Tail(short)
         IN IF ~Lookup(f, name) /\ name = <<"h">> THEN Failed(f, ErrHelp)
            ELSE IF ~Lookup(f, name) THEN Failed(f, ErrNoSuchFlag(<<"-">> \o name))
            ELSE IF isBoolFlag(f, name)
                 THEN parseShortBool(Set(f, name, TextTrue), rest, arguments)
            ELSE IF rest = <<>> /\ Len(arguments) = 0
                 THEN Failed(f, ErrMissingArg(<<"-">> \o name))
            ELSE SetThen(f, name,
                         IF rest # <<>> THEN rest ELSE Head(arguments),
                         IF rest # <<>> THEN arguments ELSE Tail(arguments))

\* PosixFlagSet.parse returns with the residual args
Stop(f, args) ==
    [fs |-> [f EXCEPT !.args = args], arguments |-> <<>>, err |-> NoErr, done |-> TRUE]

\* PosixFlagSet.parse after parseLong or parseShort returned r
Continue(r) ==
    [fs |-> r.fs, arguments |-> r.arguments, err |-> r.err, done |-> r.err # NoErr]

parseIter_KeepTerminator(f, arguments) ==
    LET arg == Head(arguments)
    IN IF arg = <<"-">> THEN Stop(f, arguments)
       ELSE IF arg = <<"-", "-">> THEN Stop(f, arguments)
       ELSE IF HasPrefix(arg, <<"-", "-">>)
       THEN Continue(parseLong(f, CutPrefix(arg, <<"-", "-">>).after, Tail(arguments)))
       ELSE IF HasPrefix(arg, <<"-">>)
       THEN Continue(parseShort(f, CutPrefix(arg, <<"-">>).after, Tail(arguments)))
       ELSE Stop(f, arguments)

parseIter_HyphenIsFlag(f, arguments) ==
    LET arg == Head(arguments)
    IN IF arg = <<"-", "-">> THEN Stop(f, Tail(arguments))
       ELSE IF HasPrefix(arg, <<"-", "-">>)
       THEN Continue(parseLong(f, CutPrefix(arg, <<"-", "-">>).after, Tail(arguments)))
       ELSE IF HasPrefix(arg, <<"-">>)
       THEN Continue(parseShort(f, CutPrefix(arg, <<"-">>).after, Tail(arguments)))
       ELSE Stop(f, arguments)

parseIter_SkipArgument(f, arguments) ==
    LET arg == Head(arguments)
    IN IF arg = <<"-">> THEN Stop(f, arguments)
       ELSE IF arg = <<"-", "-">> THEN Stop(f, Tail(arguments))
       ELSE IF HasPrefix(arg, <<"-", "-">>)
       THEN Continue(parseLong(f, CutPrefix(arg, <<"-", "-">>).after, Tail(arguments)))
       ELSE IF HasPrefix(arg, <<"-">>)
       THEN Continue(parseShort(f, CutPrefix(arg, <<"-">>).after, Tail(arguments)))
       ELSE [fs |-> f, arguments |-> Tail(arguments), err |-> NoErr, done |-> FALSE]

parseIter_StaysAtHyphen(f, arguments) ==
    LET arg == Head(arguments)
    IN IF arg = <<"-">> THEN [fs |-> f, arguments |-> arguments, err |-> NoErr, done |-> FALSE]
       ELSE IF arg = <<"-", "-">> THEN Stop(f, Tail(arguments))
       ELSE IF HasPrefix(arg, <<"-", "-">>)
       THEN Continue(parseLong(f, CutPrefix(arg, <<"-", "-">>).after, Tail(arguments)))
       ELSE IF HasPrefix(arg, <<"-">>)
       THEN Continue(parseShort(f, CutPrefix(arg, <<"-">>).after, Tail(arguments)))
       ELSE Stop(f, arguments)

parseIter_AllOrNothing(f, arguments) ==
    LET arg == Head(arguments)
        long == Continue(parseLong(f, CutPrefix(arg, <<"-", "-">>).after, Tail(arguments)))
        short == Continue(parseShort(f, CutPrefix(arg, <<"-">>).after, Tail(arguments)))
    IN IF arg = <<"-">> THEN Stop(f, arguments)
       ELSE IF arg = <<"-", "-">> THEN Stop(f, Tail(arguments))
       ELSE IF HasPrefix(arg, <<"-", "-">>) THEN long
       ELSE IF HasPrefix(arg, <<"-">>)
       THEN (IF short.err # NoErr THEN [short EXCEPT !.fs = f] ELSE short)
       ELSE Stop(f, arguments)

\* One iteration of the loop of PosixFlagSet.parse on a non-empty argument
\* list: done tells that parse returned, arguments is what the next iteration
\* scans.
parseIter(f, arguments) ==
    LET arg == Head(arguments)
    IN IF arg = <<"-">> THEN Stop(f, arguments)
       ELSE IF arg = <<"-", "-">> THEN Stop(f, Tail(arguments))
       ELSE IF HasPrefix(arg, <<"-", "-">>)
       THEN Continue(parseLong(f, CutPrefix(arg, <<"-", "-">>).after, Tail(arguments)))
       ELSE IF HasPrefix(arg, <<"-">>)
       THEN Continue(parseShort(f, CutPrefix(arg, <<"-">>).after, Tail(arguments)))
       ELSE Stop(f, arguments)

RECURSIVE parseLoop(_, _)

\* PosixFlagSet.parse after an iteration r of its loop
parseNext(r) ==
    IF r.done THEN [fs |-> r.fs, err |-> r.err]
    ELSE parseLoop(r.fs, r.arguments)

\* The loop of PosixFlagSet.parse, entered with f.parsed already set
parseLoop(f, arguments) ==
    IF Len(arguments) = 0
    THEN [fs |-> [f EXCEPT !.args = arguments], err |-> NoErr]
    ELSE parseNext(parseIter(f, arguments))

\* PosixFlagSet.parse
parse(f, arguments) == parseLoop([f EXCEPT !.parsed = TRUE], arguments)

\* PosixFlagSet.Parse under flag.ContinueOnError: the error of parse is
\* returned after the usage callback has printed
Parse(f, arguments) == parse(f, arguments)

\* ------------------------------------------------------------------------
\* Tokens of the command lines that are explored
\* ------------------------------------------------------------------------

TokRoot == <<"r", "o", "o", "t">>
TokChild == <<"c", "h", "i", "l", "d">>
TokGrandchild == <<"g", "r", "a", "n", "d", "c", "h", "i", "l", "d">>
TokTail == <<"t", "a", "i", "l">>
TokR1 == <<"-", "-", "r", "=", "1">>
TokC2 == <<"-", "-", "c", "=", "2">>
TokG3 == <<"-", "-", "g", "=", "3">>
TokO == <<"-", "o">>
TokH == <<"-", "h">>
TokHelpX == <<"-", "-", "h", "e", "l", "p", "=", "x">>
TokHelp == <<"-", "-", "h", "e", "l", "p">>
TokHelpCmd == <<"h", "e", "l", "p", "-", "c", "m", "d">>
TokBindEnv == <<"b", "i", "n", "d", "-", "e", "n", "v">>
TokShow == <<"s", "h", "o", "w">>
TokPageCount5 == <<"-", "-", "p", "a", "g", "e", "-", "c", "o", "u", "n", "t", "=", "5">>
TokPageCountX == <<"-", "-", "p", "a", "g", "e", "-", "c", "o", "u", "n", "t", "=", "x">>
TokFormatPretty == <<"-", "-", "f", "o", "r", "m", "a", "t", "=", "p", "r", "e", "t", "t", "y">>
TokG4 == <<"-", "-", "g", "=", "4">>
TokDashDash == <<"-", "-">>
TokPing == <<"p", "i", "n", "g">>
TokPong == <<"p", "o", "n", "g">>

\* the names of the flags of show
NameFormat == <<"f", "o", "r", "m", "a", "t">>
NamePageCount == <<"p", "a", "g", "e", "-", "c", "o", "u", "n", "t">>

\* the names of the help flags
NameH == <<"h">>
NameHelp == <<"h", "e", "l", "p">>

ExecTokens == {TokR1, TokChild, TokC2, TokGrandchild, TokG3, TokTail, TokO, TokH, TokHelpX}

\* `--r=1 child --c=2 grandchild --g=3 tail`
ExampleArgs == <<TokR1, TokChild, TokC2, TokGrandchild, TokG3, TokTail>>

\* `--option test child --count 1 arg-1 arg-2`, with -o for both options
ExampleLifecycleArgs == <<TokO, TokTail, TokChild, TokO, TokR1, TokTail, TokTail>>

\* `l2 --l2f0=253 000 --l2f1 25 111`: flags after the first argument of a
\* command without subcommands
InterspersedArgs == <<TokChild, TokGrandchild, TokG3, TokTail, TokO, TokTail, TokTail>>

\* a flag that the command without subcommands does not register, after its
\* first argument
LateFlagArgs == <<TokChild, TokGrandchild, TokTail, TokR1>>

ArgVectors ==
    SeqsUpTo(ExecTokens, MaxArgs)
        \cup {ExampleArgs, ExampleLifecycleArgs, InterspersedArgs, LateFlagArgs}

\* ------------------------------------------------------------------------
\* The command tree: root -> child -> grandchild, each with one flag of its
\* own (r, c, g) and a string flag o
\* ------------------------------------------------------------------------

Commands == {"root", "child", "grandchild"}

\* a further subcommand of root, which registers the flags h and help itself
HelpCommand == "help-cmd"

\* the commands of the example of environment binding, as a subcommand of
\* root: bind-env, without flags of its own, and its subcommand show
BindEnvCommand == "bind-env"
ShowCommand == "show"

\* two commands of a tree with cycles: pong and grandchild are subcommands
\* of ping, ping and pong are subcommands of pong; each registers the string
\* flag o
PingCommand == "ping"
PongCommand == "pong"

\* Command.Name
Name(cmd) ==
    CASE cmd = "root" -> TokRoot
      [] cmd = "child" -> TokChild
      [] cmd = "grandchild" -> TokGrandchild
      [] cmd = HelpCommand -> TokHelpCmd
      [] cmd = BindEnvCommand -> TokBindEnv
      [] cmd = ShowCommand -> TokShow
      [] cmd = PingCommand -> TokPing
      [] cmd = PongCommand -> TokPong

\* RootCommand.Subcommands
Subcommands(cmd) ==
    CASE cmd = "root" -> <<"child", HelpCommand, BindEnvCommand>>
      [] cmd = "child" -> <<"grandchild">>
      [] cmd = "grandchild" -> <<>>
      [] cmd = HelpCommand -> <<>>
      [] cmd = BindEnvCommand -> <<ShowCommand>>
      [] cmd = ShowCommand -> <<>>
      [] cmd = PingCommand -> <<PongCommand, "grandchild">>
      [] cmd = PongCommand -> <<PingCommand, PongCommand>>

\* the name of the flag a command registers besides o
OwnFlag(cmd) ==
    CASE cmd = "root" -> <<"r">>
      [] cmd = "child" -> <<"c">>
      [] cmd = "grandchild" -> <<"g">>

\* collectSubcommands: the map from subcommand name to subcommand; a later
\* subcommand of the same name replaces an earlier one
collectSubcommands(cmd) ==
    LET subs == Subcommands(cmd)
        names == {Name(subs[i]) : i \in 1..Len(subs)}
        last(n) == CHOOSE i \in 1..Len(subs) :
                       /\ Name(subs[i]) = n
                       /\ \A j \in (i + 1)..Len(subs) : Name(subs[j]) # n
    IN [n \in names |-> subs[last(n)]]

\* FlagInitializer.InitializeFlags: the names the command registers, in order
InitializeFlags(cmd) ==
    IF cmd = HelpCommand THEN <<NameH, NameHelp>>
    ELSE IF cmd = BindEnvCommand THEN <<>>
    ELSE IF cmd = ShowCommand THEN <<NameFormat, NamePageCount>>
    ELSE IF cmd \in {PingCommand, PongCommand} THEN << <<"o">> >>
    ELSE <<OwnFlag(cmd), <<"o">>>>

\* the names registered with the flag set of a frame, in order: the help
\* flags by buildCallStack, then those of the command's InitializeFlags
Registered(cmd) == <<NameH, NameHelp>> \o InitializeFlags(cmd)

\* FlagSet.Var panics: a name is registered that the flag set already has
Redefined(cmd) ==
    \E i, j \in 1..Len(Registered(cmd)) : i < j /\ Registered(cmd)[i] = Registered(cmd)[j]

\* the panic of FlagSet.Var
Panic == [kind |-> "panic"]

\* The flag set of show: the help flags, format with the default "default"
\* and the unsigned page-count with the default 10
ShowFlagSet ==
    NewFlagSet(
        [n \in {NameH, NameHelp, NameFormat, NamePageCount} |->
            IF n \in {NameH, NameHelp} THEN "showHelp"
            ELSE IF n = NameFormat THEN "format" ELSE "page-count"],
        [i \in {"showHelp", "format", "page-count"} |->
            IF i = "showHelp" THEN BoolValue(FALSE)
            ELSE IF i = "format" THEN StringValue(<<"d", "e", "f", "a", "u", "l", "t">>)
            ELSE UintValue(<<"1", "0">>)])

\* The flag set of a frame after buildCallStack registered the help flags and
\* the command's InitializeFlags registered its own, when none of the
\* registrations panics
FrameFlagSet(cmd) ==
    LET names == {Registered(cmd)[i] : i \in 1..Len(Registered(cmd))}
    IN IF cmd = ShowCommand THEN ShowFlagSet ELSE NewFlagSet(
         [n \in names |->
            IF n \in {<<"h">>, <<"h", "e", "l", "p">>} THEN "showHelp"
            ELSE IF n = <<"o">> THEN "o" ELSE "own"],
         [i \in {"showHelp", "own", "o"} |->
            IF i = "showHelp" THEN BoolValue(FALSE) ELSE StringValue(<<>>)])

\* ------------------------------------------------------------------------
\* Environment binding
\* ------------------------------------------------------------------------

\* FlagSet.VisitAll: the names of the flags in the order they are visited
VisitAll(f) == Sorted(DOMAIN f.formal)

\* the regular expression [^a-zA-Z0-9]: a character that is removed
Alnum ==
    {LowerCase[i] : i \in 1..26} \cup {UpperCase[i] : i \in 1..26} \cup {Digits[i] : i \in 1..10}

IsAlnum(c) == c \in Alnum

\* the upper-case letter of each lower-case letter
UpperOf == [c \in {LowerCase[i] : i \in 1..26} |-> UpperCase[CHOOSE i \in 1..26 : c = LowerCase[i]]]

ToUpper_KeepCase(c) == c

\* strings.ToUpper of one character
ToUpper(c) == IF c \in DOMAIN UpperOf THEN UpperOf[c] ELSE c

\* strings.ToUpper of a string
ToUpperString(v) == [i \in 1..Len(v) |-> ToUpper(v[i])]

\* strings.ToUpper(reg.ReplaceAllString(v, ""))
formatComponent(v) == ToUpperString(SelectSeq(v, IsAlnum))

\* strings.Join(path, "_")
RECURSIVE Join(_)
Join(path) ==
    IF path = <<>> THEN <<>>
    ELSE IF Len(path) = 1 THEN Head(path)
    ELSE Head(path) \o <<"_">> \o Join(Tail(path))

\* formatEnvvar after its loop replaced the elements of flagpath
Joined(flagpath) == [variable |-> Join(flagpath), flagpath |-> flagpath]

\* formatEnvvar: the name of the variable, and the elements of flagpath as
\* the loop leaves them in the array of the slice
formatEnvvar(flagpath) ==
    Joined([i \in 1..Len(flagpath) |-> formatComponent(flagpath[i])])

RECURSIVE bindVariables(_, _, _, _)

\* bindEnvironmentFlags after formatEnvvar returned fm for the first of names:
\* append(components, flag.Name) either wrote the name into the array of
\* components, whose elements formatEnvvar then replaced, or into a new array
bindVariablesNext(components, names, prefix, reuse, fm) ==
    << prefix \o fm.variable >>
        \o bindVariables(IF reuse THEN SubSeq(fm.flagpath, 1, Len(components)) ELSE components,
                         Tail(names), prefix, reuse)

\* bindEnvironmentFlags: the variables looked up for the flags names, in order
bindVariables(components, names, prefix, reuse) ==
    IF names = <<>> THEN <<>>
    ELSE bindVariablesNext(components, names, prefix, reuse,
                           formatEnvvar(Append(components, Head(names))))

\* errors.Join(ErrEnvironmentBindFailure, ..., err)
ErrEnvironmentBindFailure(name, variable, e) ==
    [kind |-> "ErrEnvironmentBindFailure", flag |-> name, variable |-> variable, cause |-> e]

\* errors.Is(err, ErrEnvironmentBindFailure)
IsEnvironmentBindFailure(e) == e.kind = "ErrEnvironmentBindFailure"

RECURSIVE bindLoop(_, _, _, _)

bindSet_Ignore(f, r, names, variables, environ) ==
    IF r.err # NoErr
    THEN bindLoop(f, Tail(names), Tail(variables), environ)
    ELSE bindLoop([f EXCEPT !.value[f.formal[Head(names)]] = r.val],
                  Tail(names), Tail(variables), environ)

\* bindEnvironmentFlags after flag.Value.Set returned r
bindSet(f, r, names, variables, environ) ==
    IF r.err # NoErr
    THEN [fs |-> f, err |-> ErrEnvironmentBindFailure(Head(names), Head(variables), r.err)]
    ELSE bindLoop([f EXCEPT !.value[f.formal[Head(names)]] = r.val],
                  Tail(names), Tail(variables), environ)

\* bindEnvironmentFlags: the loop over the flags
bindLoop(f, names, variables, environ) ==
    IF names = <<>> THEN [fs |-> f, err |-> NoErr]
    ELSE IF Head(variables) \notin DOMAIN environ
    THEN bindLoop(f, Tail(names), Tail(variables), environ)
    ELSE bindSet(f, Value_Set(FlagValue(f, Head(names)), environ[Head(variables)]),
                 names, variables, environ)

\* the names of the commands of the stack, followed by that of cmd
Components(stack, cmd) == [i \in 1..Len(stack) |-> Name(stack[i].cmd)] \o <<Name(cmd)>>

\* bindEnvironmentFlags
bindEnvironmentFlags(stack, cmd, f, o) ==
    bindLoop(f, VisitAll(f),
             bindVariables(Components(stack, cmd), VisitAll(f), o.bindEnvPrefix, o.reuse),
             o.environ)

\* ------------------------------------------------------------------------
\* parseArgs and buildCallStack
\* ------------------------------------------------------------------------

RECURSIVE parseArgsLoop(_, _, _, _)

\* parseArgs after fp.Parse returned r
parseArgsParsed(r, processed, interspersed) ==
    IF r.err # NoErr THEN [fs |-> r.fs, args |-> <<>>, err |-> r.err]
    ELSE IF ~interspersed THEN [fs |-> r.fs, args |-> r.fs.args, err |-> NoErr]
    ELSE IF Len(r.fs.args) > 0
         THEN parseArgsLoop(r.fs, Tail(r.fs.args),
                            Append(processed, Head(r.fs.args)), interspersed)
    ELSE parseArgsLoop(r.fs, r.fs.args, processed, interspersed)

\* the loop of parseArgs
parseArgsLoop(f, args, processed, interspersed) ==
    IF Len(args) = 0 THEN [fs |-> f, args |-> processed, err |-> NoErr]
    ELSE parseArgsParsed(Parse(f, args), processed, interspersed)

parseArgs_Interspersed(cmd, f, args, o) ==
    parseArgsLoop(f, args, <<>>, o.interspersed)

parseArgs_WithSubcommands(cmd, f, args, o) ==
    parseArgsLoop(f, args, <<>>,
                  o.interspersed /\ Cardinality(DOMAIN collectSubcommands(cmd)) > 0)

\* parseArgs: interspersed parsing only for a command without subcommands
parseArgs(cmd, f, args, o) ==
    parseArgsLoop(f, args, <<>>,
                  o.interspersed /\ Cardinality(DOMAIN collectSubcommands(cmd)) = 0)

Frame_WithName(cmd, p) ==
    [cmd |-> cmd, fs |-> p.fs, args |-> <<Name(cmd)>> \o p.args,
     showHelp |-> p.fs.value["showHelp"].text = TextTrue]

\* the frame of command cmd after parseArgs returned p
Frame(cmd, p) ==
    [cmd |-> cmd, fs |-> p.fs, args |-> p.args,
     showHelp |-> p.fs.value["showHelp"].text = TextTrue]

RECURSIVE buildLoop(_, _, _, _)

buildFrame_KeepName(cmd, p, stack, o) ==
    IF p.err # NoErr THEN [stack |-> <<>>, err |-> p.err]
    ELSE IF Len(p.args) = 0
         THEN [stack |-> Append(stack, Frame(cmd, p)), err |-> NoErr]
    ELSE IF Head(p.args) \in DOMAIN collectSubcommands(cmd)
         THEN buildLoop(collectSubcommands(cmd)[Head(p.args)], p.args,
                        Append(stack, Frame(cmd, p)), o)
    ELSE [stack |-> Append(stack, Frame(cmd, p)), err |-> NoErr]

buildFrame_SkipFailedLevel(cmd, p, stack, o) ==
    IF p.err # NoErr THEN [stack |-> stack, err |-> NoErr]
    ELSE IF Len(p.args) = 0
         THEN [stack |-> Append(stack, Frame(cmd, p)), err |-> NoErr]
    ELSE IF Head(p.args) \in DOMAIN collectSubcommands(cmd)
         THEN buildLoop(collectSubcommands(cmd)[Head(p.args)], Tail(p.args),
                        Append(stack, Frame(cmd, p)), o)
    ELSE [stack |-> Append(stack, Frame(cmd, p)), err |-> NoErr]

\* an iteration of the loop of buildCallStack after parseArgs returned p
buildFrame(cmd, p, stack, o) ==
    IF p.err # NoErr THEN [stack |-> <<>>, err |-> p.err]
    ELSE IF Len(p.args) = 0
         THEN [stack |-> Append(stack, Frame(cmd, p)), err |-> NoErr]
    ELSE IF Head(p.args) \in DOMAIN collectSubcommands(cmd)
         THEN buildLoop(collectSubcommands(cmd)[Head(p.args)], Tail(p.args),
                        Append(stack, Frame(cmd, p)), o)
    ELSE [stack |-> Append(stack, Frame(cmd, p)), err |-> NoErr]

buildBound_DropEnvironment(cmd, b, args, stack, o) ==
    IF b.err # NoErr THEN [stack |-> <<>>, err |-> b.err]
    ELSE buildFrame(cmd, parseArgs(cmd, FrameFlagSet(cmd), args, o), stack, o)

\* an iteration of the loop of buildCallStack after bindEnvironmentFlags
\* returned b
buildBound(cmd, b, args, stack, o) ==
    IF b.err # NoErr THEN [stack |-> <<>>, err |-> b.err]
    ELSE buildFrame(cmd, parseArgs(cmd, b.fs, args, o), stack, o)

\* the loop of buildCallStack, from command cmd with args still to parse
buildLoop(cmd, args, stack, o) ==
    IF Redefined(cmd) THEN [stack |-> <<>>, err |-> Panic]
    ELSE IF o.bindEnv
    THEN buildBound(cmd, bindEnvironmentFlags(stack, cmd, FrameFlagSet(cmd), o), args, stack, o)
    ELSE buildFrame(cmd, parseArgs(cmd, FrameFlagSet(cmd), args, o), stack, o)

\* buildCallStack
buildCallStack(cmd, o) == buildLoop(cmd, o.args, <<>>, o)

helpRequested_LeafOnly(stack) == Len(stack) > 0 /\ stack[Len(stack)].showHelp

\* helpRequested
helpRequested(stack) == \E i \in 1..Len(stack) : stack[i].showHelp

\* ------------------------------------------------------------------------
\* Errors of lifecycle hooks
\* ------------------------------------------------------------------------

ErrShowUsage == [kind |-> "ErrShowUsage"]

\* the error a hook makes up itself: one value per hook and frame
HookErr(hook, i) == [kind |-> "hook error", hook |-> hook, frame |-> i]

\* an error of a hook that wraps ErrShowUsage
WrappedShowUsage(hook, i) == [kind |-> "wraps ErrShowUsage", hook |-> hook, frame |-> i]

\* errors.Is(err, ErrShowUsage)
IsShowUsage(e) == e = ErrShowUsage \/ e.kind = "wraps ErrShowUsage"

\* what a hook may return
HookReturns(hook, i) == {NoErr, HookErr(hook, i), ErrShowUsage, WrappedShowUsage(hook, i)}

\* ------------------------------------------------------------------------
\* State
\* ------------------------------------------------------------------------

VARIABLES
    ops,          \* ExecuteOptions: args, interspersed, bindEnv and bindEnvPrefix
    environ,      \* the environment of the process: variable name -> value
    lifecycle,    \* the commands that implement RunnableLifecycle
    pc,           \* "Execute", "execute", "returned", "exited" (os.Exit) or "panicked"
    stack,        \* the call stack built by buildCallStack, root first
    pos,          \* the frame whose call of execute is running
    phase,        \* what that call does next: "onInit", "run", "onDestroy", "return"
    err,          \* the error a call of execute is returning
    trace,        \* the hooks invoked so far, with arguments and return value
    result,       \* the error returned by Execute
    rendered,     \* the commands whose usage text was rendered, in order
    exitStatus,   \* the status given to os.Exit, -1 while the process runs
    cancelled,    \* the frames whose call of execute has cancelled its context
    fset,         \* a stand-alone flag set being parsed
    arguments,    \* the arguments its parse loop still has to scan
    given,        \* the argument vector given to its Parse
    parseErr,     \* the error returned by its Parse or Set
    parsePc,      \* "idle", "parse", "parsed" or "panicked"
    call          \* the last call of Var, Set or Parse on it, with its inputs

vars == <<ops, environ, lifecycle, pc, stack, pos, phase, err, trace, result, rendered,
          exitStatus, cancelled, fset, arguments, given, parseErr, parsePc, call>>

execVars == <<ops, environ, lifecycle, pc, stack, pos, phase, err, trace, result, rendered,
              exitStatus, cancelled>>

parseVars == <<fset, arguments, given, parseErr, parsePc, call>>

NoCall == [op |-> "none"]

\* ------------------------------------------------------------------------
\* Execute
\* ------------------------------------------------------------------------

RootCommand == "root"

ExecIdle ==
    /\ pc = "Execute"
    /\ stack = <<>>
    /\ pos = 0
    /\ phase = "none"
    /\ err = NoErr
    /\ trace = <<>>
    /\ result = NoErr
    /\ rendered = <<>>
    /\ exitStatus = -1
    /\ cancelled = {}

ParseIdle ==
    /\ fset = NewFlagSet(<<>>, <<>>)
    /\ arguments = <<>>
    /\ given = <<>>
    /\ parseErr = NoErr
    /\ parsePc = "idle"
    /\ call = NoCall

Init ==
    /\ ops \in [args : ArgVectors, interspersed : BOOLEAN, bindEnv : {FALSE},
                bindEnvPrefix : {<<>>}]
    /\ environ = <<>>
    /\ lifecycle \in SUBSET Commands
    /\ ExecIdle
    /\ ParseIdle

\* usage: renders the usage text of a command; the template of the package
\* renders without error
usage(cmd) == [rendered |-> Append(rendered, cmd), err |-> NoErr]

\* Execute after buildCallStack returned b, up to its call of execute
ExecuteBuilt(b) ==
    IF b.err = Panic
    THEN /\ pc' = "panicked"
         /\ UNCHANGED <<stack, pos, phase, result, rendered>>
    ELSE IF b.err # NoErr
    THEN /\ result' = b.err
         /\ pc' = "returned"
         /\ UNCHANGED <<stack, pos, phase, rendered>>
    ELSE IF helpRequested(b.stack)
    THEN /\ rendered' = usage(b.stack[Len(b.stack)].cmd).rendered
         /\ result' = usage(b.stack[Len(b.stack)].cmd).err
         /\ pc' = "returned"
         /\ stack' = b.stack
         /\ UNCHANGED <<pos, phase>>
    ELSE IF Len(b.stack) = 0
    THEN /\ result' = NoErr
         /\ pc' = "returned"
         /\ UNCHANGED <<stack, pos, phase, rendered>>
    ELSE /\ stack' = b.stack
         /\ pc' = "execute"
         /\ pos' = 1
         /\ phase' = "onInit"
         /\ UNCHANGED <<result, rendered>>

\* whether append(components, flag.Name) in bindEnvironmentFlags writes into
\* the array of components: the capacity of the slice decides
AppendReuses == IF ops.bindEnv THEN BOOLEAN ELSE {FALSE}

\* the options of Execute, with what the run-time system adds to them
Options(reuse) == [reuse |-> reuse, environ |-> environ] @@ ops

\* Execute, up to its call of execute
Execute ==
    /\ pc = "Execute"
    /\ \E reuse \in AppendReuses :
         ExecuteBuilt(buildCallStack(RootCommand, Options(reuse)))
    /\ UNCHANGED <<ops, environ, lifecycle, err, trace, exitStatus, cancelled>>
    /\ UNCHANGED parseVars

\* the type assertion c.Command.(RunnableLifecycle)
HasLifecycle(c) == c.cmd \in lifecycle

IsLeaf_EveryFrame(i) == TRUE

IsLeaf_Root(i) == i = 1

\* execute: len(stack) == 1, the frame of this call is the last of the stack
IsLeaf(i) == i = Len(stack)

Call_LeafArgs(hook, i, ret) ==
    [hook |-> hook, frame |-> i, cmd |-> stack[i].cmd, args |-> stack[Len(stack)].args,
     ret |-> ret]

\* a hook of frame i is called with the arguments of the frame, c.args
Call(hook, i, ret) ==
    [hook |-> hook, frame |-> i, cmd |-> stack[i].cmd, args |-> stack[i].args, ret |-> ret]

ShowUsageAndExit_Leaf(c) ==
    /\ rendered' = usage(stack[Len(stack)].cmd).rendered
    /\ exitStatus' = 2
    /\ pc' = "exited"
    /\ UNCHANGED <<pos, phase, err, result>>

\* the error of a hook is ErrShowUsage: render the usage of command c, exit 2
ShowUsageAndExit(c) ==
    /\ rendered' = usage(c.cmd).rendered
    /\ exitStatus' = 2
    /\ pc' = "exited"
    /\ UNCHANGED <<pos, phase, err, result>>

Return_ThenDestroy(e) ==
    /\ err' = e
    /\ phase' = "onDestroy"
    /\ UNCHANGED <<pc, pos, result, rendered, exitStatus>>

Return_BestEffort(e) ==
    /\ err' = e
    /\ IF phase = "onDestroy" /\ pos > 1
       THEN pos' = pos - 1 /\ phase' = phase
       ELSE pos' = pos /\ phase' = "return"
    /\ UNCHANGED <<pc, result, rendered, exitStatus>>

\* execute returns e to its caller
Return(e) ==
    /\ err' = e
    /\ phase' = "return"
    /\ UNCHANGED <<pc, pos, result, rendered, exitStatus>>

\* defer cancel() of the call of execute for frame i, when the call returns
Cancel(returns, i) == IF returns THEN cancelled \cup {i} ELSE cancelled

\* command.onInit, and what execute does with its result
OnInit ==
    /\ pc = "execute"
    /\ phase = "onInit"
    /\ LET this == stack[pos]
       IN \E ret \in IF HasLifecycle(this) THEN HookReturns("Initialize", pos) ELSE {NoErr} :
            /\ trace' = IF HasLifecycle(this)
                        THEN Append(trace, Call("Initialize", pos, ret)) ELSE trace
            /\ IF IsShowUsage(ret) THEN ShowUsageAndExit(this)
               ELSE IF ret # NoErr THEN Return(ret)
               ELSE IF IsLeaf(pos)
               THEN /\ phase' = "run"
                    /\ UNCHANGED <<pc, pos, err, result, rendered, exitStatus>>
               ELSE /\ pos' = pos + 1
                    /\ UNCHANGED <<pc, phase, err, result, rendered, exitStatus>>
    /\ UNCHANGED <<ops, environ, lifecycle, stack, cancelled>>
    /\ UNCHANGED parseVars

\* command.run of the leaf, and what execute does with its result
Run ==
    /\ pc = "execute"
    /\ phase = "run"
    /\ LET this == stack[pos]
       IN \E ret \in HookReturns("Run", pos) :
            /\ trace' = Append(trace, Call("Run", pos, ret))
            /\ IF IsShowUsage(ret) THEN ShowUsageAndExit(this)
               ELSE IF ret # NoErr THEN Return(ret)
               ELSE /\ phase' = "onDestroy"
                    /\ UNCHANGED <<pc, pos, err, result, rendered, exitStatus>>
    /\ UNCHANGED <<ops, environ, lifecycle, stack, cancelled>>
    /\ UNCHANGED parseVars

\* command.onDestroy, and what execute does with its result; after it the call
\* of execute for this frame returns nil to the call for the frame above, and
\* its deferred cancel runs
OnDestroy ==
    /\ pc = "execute"
    /\ phase = "onDestroy"
    /\ LET this == stack[pos]
       IN \E ret \in IF HasLifecycle(this) THEN HookReturns("Destroy", pos) ELSE {NoErr} :
            /\ trace' = IF HasLifecycle(this)
                        THEN Append(trace, Call("Destroy", pos, ret)) ELSE trace
            /\ cancelled' = Cancel(ret = NoErr, pos)
            /\ IF IsShowUsage(ret) THEN ShowUsageAndExit(this)
               ELSE IF ret # NoErr THEN Return(ret)
               ELSE IF pos = 1
               THEN /\ pc' = "returned"
                    /\ result' = NoErr
                    /\ UNCHANGED <<pos, phase, err, rendered, exitStatus>>
               ELSE /\ pos' = pos - 1
                    /\ UNCHANGED <<pc, phase, err, result, rendered, exitStatus>>
    /\ UNCHANGED <<ops, environ, lifecycle, stack>>
    /\ UNCHANGED parseVars

Propagate_Wrapped(e) == [kind |-> "wrapped", inner |-> e]

\* what a call of execute hands to its caller when the call made for the next
\* frame returned an error
Propagate(e) == e

\* a call of execute returns a non-nil error and its deferred cancel runs: the
\* caller, execute for the frame above, returns the error in turn, and Execute
\* returns what the outermost call returns
ReturnErr ==
    /\ pc = "execute"
    /\ phase = "return"
    /\ cancelled' = Cancel(TRUE, pos)
    /\ IF pos = 1
       THEN /\ pc' = "returned"
            /\ result' = err
            /\ UNCHANGED <<pos, err>>
       ELSE /\ pos' = pos - 1
            /\ err' = Propagate(err)
            /\ UNCHANGED <<pc, result>>
    /\ UNCHANGED <<ops, environ, lifecycle, stack, phase, trace, rendered, exitStatus>>
    /\ UNCHANGED parseVars

Next == Execute \/ OnInit \/ Run \/ OnDestroy \/ ReturnErr

Spec == Init /\ [][Next]_vars

\* Execute of command lines that name help-cmd and ask for help
HelpTokens == {TokHelpCmd, TokHelp, TokH, TokChild, TokTail, TokO, TokDashDash}

InitHelp ==
    /\ ops \in [args : SeqsUpTo(HelpTokens, MaxHelpArgs), interspersed : BOOLEAN,
                bindEnv : {FALSE}, bindEnvPrefix : {<<>>}]
    /\ environ = <<>>
    /\ lifecycle \in SUBSET {"root", "child", HelpCommand}
    /\ ExecIdle
    /\ ParseIdle

SpecHelp == InitHelp /\ [][Next]_vars

\* Execute of command lines that give flags, arguments and `--` to
\* grandchild, the command without subcommands
LeafTokens == {TokG3, TokG4, TokO, TokTail, TokDashDash}

InitLeaf ==
    /\ ops \in [args : {<<TokChild, TokGrandchild>> \o v : v \in SeqsUpTo(LeafTokens, MaxLeafArgs)},
                interspersed : BOOLEAN, bindEnv : {FALSE}, bindEnvPrefix : {<<>>}]
    /\ environ = <<>>
    /\ lifecycle \in SUBSET {"root", "grandchild"}
    /\ ExecIdle
    /\ ParseIdle

SpecLeaf == InitLeaf /\ [][Next]_vars

\* Execute with environment binding of command lines for root, bind-env and
\* show
EnvTokens == {TokBindEnv, TokShow, TokPageCount5, TokPageCountX, TokFormatPretty}

\* the prefix of WithPrefixedEnvironmentBinding
EnvPrefix == <<"A", "P", "P", "_">>

VarPageCount == <<"R", "O", "O", "T", "_", "B", "I", "N", "D", "E", "N", "V", "_", "S", "H", "O", "W", "_", "P", "A", "G", "E", "C", "O", "U", "N", "T">>
VarFormat == <<"R", "O", "O", "T", "_", "B", "I", "N", "D", "E", "N", "V", "_", "S", "H", "O", "W", "_", "F", "O", "R", "M", "A", "T">>
VarRootO == <<"R", "O", "O", "T", "_", "O">>
VarPrefixedPageCount == EnvPrefix \o VarPageCount

\* the value of one variable
Setenv(variable, value) == [v \in {variable} |-> value]

\* the environments of the process
Environments ==
    { <<>>,
      Setenv(VarPageCount, <<"2", "0">>),
      Setenv(VarPageCount, <<"x">>),
      Setenv(VarFormat, <<"o", "v", "e", "r", "i", "d", "d", "e", "n", "-", "b", "y", "-", "f", "l", "a", "g">>) @@ Setenv(VarPageCount, <<"2", "0">>),
      Setenv(VarRootO, <<"e", "n", "v">>) @@ Setenv(VarPageCount, <<"x">>),
      Setenv(VarPrefixedPageCount, <<"2", "0">>) }

InitEnv ==
    /\ ops \in [args : SeqsUpTo(EnvTokens, MaxEnvArgs), interspersed : {FALSE},
                bindEnv : {TRUE}, bindEnvPrefix : {<<>>, EnvPrefix}]
               \cup [args : SeqsUpTo(EnvTokens, MaxEnvArgs), interspersed : {FALSE},
                      bindEnv : {FALSE}, bindEnvPrefix : {<<>>}]
    /\ environ \in Environments
    /\ lifecycle \in SUBSET {ShowCommand}
    /\ ExecIdle
    /\ ParseIdle

SpecEnv == InitEnv /\ [][Next]_vars

\* ------------------------------------------------------------------------
\* Properties of the lifecycle executor
\* ------------------------------------------------------------------------

Last(s) == s[Len(s)]

\* the hooks invoked so far, as pairs of hook and frame
Calls == [i \in 1..Len(trace) |-> <<trace[i].hook, trace[i].frame>>]

\* execute was entered: the stack was built and help was not requested
Executing == pc # "Execute" /\ stack # <<>> /\ ~helpRequested(stack)

RECURSIVE InitializeCalls(_)
InitializeCalls(n) ==
    IF n = 0 THEN <<>>
    ELSE InitializeCalls(n - 1) \o
         (IF stack[n].cmd \in lifecycle THEN << <<"Initialize", n>> >> ELSE <<>>)

RECURSIVE DestroyCalls(_)
DestroyCalls(n) ==
    IF n = 0 THEN <<>>
    ELSE (IF stack[n].cmd \in lifecycle THEN << <<"Destroy", n>> >> ELSE <<>>) \o
         DestroyCalls(n - 1)

FullLifecycle ==
    InitializeCalls(Len(stack)) \o << <<"Run", Len(stack)>> >> \o DestroyCalls(Len(stack))

AllReturnedNil == \A i \in 1..Len(trace) : trace[i].ret = NoErr

\* C1: when every hook returns nil, a finished Execute on a stack of n frames
\* has invoked Initialize of the frames 1..n that have lifecycle hooks, in that
\* order, then Run of frame n only, then Destroy of the frames n..1 that have
\* lifecycle hooks, in that order, and nothing else.
C1_LifecycleOrder ==
    (Executing /\ pc = "returned" /\ AllReturnedNil) => Calls = FullLifecycle

\* C1 witness: a stack of three frames whose middle frame has no lifecycle
\* hooks ran to completion.
C1_Witness ==
    /\ Executing /\ pc = "returned" /\ AllReturnedNil
    /\ Len(stack) = 3
    /\ lifecycle = {"root", "grandchild"}
    /\ Len(trace) = 5

\* C2: a non-nil error of an Initialize or of Run is the last hook invocation
\* of the execution: no Destroy, Initialize or Run follows it.
C2_NoHookAfterFailure ==
    \A i \in 1..Len(trace) :
        (trace[i].hook \in {"Initialize", "Run"} /\ trace[i].ret # NoErr) => i = Len(trace)

\* C2 witness: Execute returned after Run of a child failed below a root with
\* lifecycle hooks, whose Destroy was therefore due.
C2_Witness ==
    /\ pc = "returned"
    /\ Len(stack) >= 2
    /\ "root" \in lifecycle
    /\ trace # <<>>
    /\ Last(trace).hook = "Run"
    /\ Last(trace).ret = HookErr("Run", Len(stack))

\* C3: the non-nil error of a hook that is not ErrShowUsage and does not wrap
\* it is the very value that Execute returns.
C3_ErrorVerbatim ==
    \A i \in 1..Len(trace) :
        (pc = "returned" /\ trace[i].ret # NoErr /\ ~IsShowUsage(trace[i].ret))
            => result = trace[i].ret

\* C3 witness: Execute returned the error of a hook of the third frame.
C3_Witness ==
    /\ pc = "returned"
    /\ trace # <<>>
    /\ Last(trace).frame = 3
    /\ Last(trace).ret = HookErr(Last(trace).hook, 3)
    /\ result = Last(trace).ret

\* C4 as stated: after a Destroy returned a non-nil error no further hook runs
\* and Execute returns that error.
C4_Original ==
    \A i \in 1..Len(trace) :
        (trace[i].hook = "Destroy" /\ trace[i].ret # NoErr)
            => /\ i = Len(trace)
               /\ pc # "exited"
               /\ pc = "returned" => result = trace[i].ret

\* C4 amended: after a Destroy returned a non-nil error no Destroy of an
\* ancestor (and no other hook) runs; Execute returns that error unless it is
\* or wraps ErrShowUsage, in which case the process exits with status 2.
C4_DestroyFailure ==
    \A i \in 1..Len(trace) :
        (trace[i].hook = "Destroy" /\ trace[i].ret # NoErr)
            => /\ i = Len(trace)
               /\ IF IsShowUsage(trace[i].ret)
                  THEN pc = "exited" /\ exitStatus = 2
                  ELSE /\ pc \in {"execute", "returned"}
                       /\ pc = "returned" => result = trace[i].ret

\* C4 witness: Destroy of the leaf of a two-frame stack failed, the root has a
\* Destroy of its own, and Execute returned.
C4_Witness ==
    /\ pc = "returned"
    /\ Len(stack) = 2
    /\ lifecycle = {"root", "child"}
    /\ trace # <<>>
    /\ Last(trace) = Call("Destroy", 2, HookErr("Destroy", 2))

\* C5 as stated: when a hook returns ErrShowUsage or an error wrapping it, the
\* usage of the leaf command is rendered and the process exits non-zero.
C5_Original ==
    \A i \in 1..Len(trace) :
        IsShowUsage(trace[i].ret)
            => /\ pc = "exited"
               /\ exitStatus > 0
               /\ rendered = <<stack[Len(stack)].cmd>>

\* C5 amended: when a hook returns ErrShowUsage or an error wrapping it, the
\* usage of the command whose hook returned it is rendered (the leaf only when
\* the hook belongs to the leaf), the process exits with status 2, Execute
\* returns nothing, and no further hook runs.
C5_ShowUsage ==
    \A i \in 1..Len(trace) :
        IsShowUsage(trace[i].ret)
            => /\ pc = "exited"
               /\ exitStatus = 2
               /\ rendered = <<trace[i].cmd>>
               /\ i = Len(trace)

\* C5 witness: Initialize of the root of a three-frame stack returned an error
\* wrapping ErrShowUsage.
C5_Witness ==
    /\ pc = "exited"
    /\ Len(stack) = 3
    /\ Len(trace) = 1
    /\ trace[1].ret = WrappedShowUsage("Initialize", 1)
    /\ rendered = <<"root">>

\* ------------------------------------------------------------------------
\* Properties of the call-stack builder
\* ------------------------------------------------------------------------

\* the arguments that level i of the built stack was given to parse
LevelInput(i) == IF i = 1 THEN ops.args ELSE Tail(stack[i - 1].args)

\* the argument segment of level i: what it was given, up to the token that
\* names the next level
Segment(i) ==
    IF i = Len(stack) THEN LevelInput(i)
    ELSE SubSeq(LevelInput(i), 1, Len(LevelInput(i)) - Len(stack[i].args))

Registry(f) == [value |-> f.value, actual |-> f.actual]

\* the text of the value of flag name in flag set f
ValueOf(f, name) == FlagValue(f, name).text

C6_Example ==
    ops.args = ExampleArgs
        => /\ Len(stack) = 3
           /\ [i \in 1..3 |-> stack[i].cmd] = <<"root", "child", "grandchild">>
           /\ \A i \in 1..3 :
                /\ stack[i].fs.actual = {OwnFlag(stack[i].cmd)}
                /\ ValueOf(stack[i].fs, OwnFlag(stack[i].cmd)) = << <<"1", "2", "3">>[i] >>
                /\ ValueOf(stack[i].fs, <<"o">>) = <<>>
                /\ ~stack[i].showHelp
           /\ stack[3].args = <<TokTail>>

C6_Structure ==
    /\ stack[1].cmd = RootCommand
    /\ \A i \in 2..Len(stack) :
         /\ stack[i - 1].args # <<>>
         /\ Head(stack[i - 1].args) \in DOMAIN collectSubcommands(stack[i - 1].cmd)
         /\ stack[i].cmd = collectSubcommands(stack[i - 1].cmd)[Head(stack[i - 1].args)]
         /\ IsSuffix(stack[i - 1].args, LevelInput(i - 1))
    /\ \/ Last(stack).args = <<>>
       \/ Head(Last(stack).args) \notin DOMAIN collectSubcommands(Last(stack).cmd)

C6_Isolation ==
    \A i \in 1..Len(stack) :
        Registry(stack[i].fs)
            = Registry(parseArgs(stack[i].cmd, FrameFlagSet(stack[i].cmd), Segment(i), ops).fs)

\* C6: for `--r=1 child --c=2 grandchild --g=3 tail` the stack has the three
\* frames root, child, grandchild, each registry has only its own flag set
\* (r=1, c=2, g=3) and the leaf residual is [tail]; in general the stack is
\* the root followed by one frame per subcommand name matched as the first
\* residual token of the level above, the leaf's first residual token (if
\* any) names no subcommand, and the registry of every level is what parsing
\* that level's own argument segment alone into a fresh registry gives.
C6_CallStack ==
    stack # <<>> => (C6_Example /\ C6_Structure /\ C6_Isolation)

\* C6 witness: the stack of the example was built.
C6_Witness ==
    /\ pc = "execute"
    /\ ops.args = ExampleArgs
    /\ Len(stack) = 3
    /\ ValueOf(stack[2].fs, <<"c">>) = <<"2">>

RECURSIVE ParsedLevels(_, _, _)

\* level cmd, whose parse of args returned p, and the levels below it
ParsedLevel(cmd, args, o, p) ==
    << [cmd |-> cmd, input |-> args, err |-> p.err, residual |-> p.args] >> \o
    (IF p.err = NoErr /\ p.args # <<>> /\ Head(p.args) \in DOMAIN collectSubcommands(cmd)
     THEN ParsedLevels(collectSubcommands(cmd)[Head(p.args)], Tail(p.args), o)
     ELSE <<>>)

\* the levels of the command tree that an argument vector walks through, from
\* cmd down: for each the command, the arguments given to its parser, the error
\* of the parse and the residual
ParsedLevels(cmd, args, o) ==
    ParsedLevel(cmd, args, o, parseArgs(cmd, FrameFlagSet(cmd), args, o))

\* the levels of the executed command line
ExecLevels == ParsedLevels(RootCommand, ops.args, ops)

\* the levels when every level's flags are parsed up to the first argument
PosixLevels == ParsedLevels(RootCommand, ops.args, [ops EXCEPT !.interspersed = FALSE])

\* the first residual token of level L names no subcommand of its command
Unmatched(L) ==
    /\ L.err = NoErr
    /\ L.residual # <<>>
    /\ Head(L.residual) \notin DOMAIN collectSubcommands(L.cmd)

\* the errors returned by the hooks invoked so far
HookResults == {trace[k].ret : k \in 1..Len(trace)}

\* level number i, L, became the leaf frame and its hooks got L's residual
FallsThrough(i, L) ==
    /\ stack # <<>>
    /\ Len(stack) = i
    /\ stack[i].cmd = L.cmd
    /\ stack[i].args = L.residual
    /\ \A k \in 1..Len(trace) : trace[k].frame = i => trace[k].args = L.residual
    /\ pc = "returned" => result \in {NoErr} \cup HookResults

\* the last of the levels Ls falls through if its first residual token names no
\* subcommand, unless it is exempt
FallsThroughIfUnmatched(Ls, exempt) ==
    (Unmatched(Last(Ls)) /\ ~(exempt /\ DOMAIN collectSubcommands(Last(Ls).cmd) = {}))
        => FallsThrough(Len(Ls), Last(Ls))

\* C7 as stated: when the first residual token of a level names no subcommand
\* of the level's command, Execute does not fail on it, the command is the
\* leaf frame and its hooks receive that token and every token after it.
C7_Original ==
    pc # "Execute" => FallsThroughIfUnmatched(PosixLevels, FALSE)

\* C7 amended: when the first residual token of a level names no subcommand of
\* the level's command, and interspersed parsing is not in effect for that
\* command (the option is not given, or the command has subcommands), Execute
\* does not fail on it, the command is the leaf frame and its hooks receive
\* that token and every token after it, unchanged and in order.
C7_Fallthrough ==
    pc # "Execute" => FallsThroughIfUnmatched(PosixLevels, ops.interspersed)

\* C7 witness: `child tail --r=1` ran child, which has a subcommand, as the
\* leaf with [tail --r=1], the option for interspersed arguments given.
C7_Witness ==
    /\ pc = "returned"
    /\ ops.args = <<TokChild, TokTail, TokR1>>
    /\ ops.interspersed
    /\ Len(stack) = 2
    /\ trace # <<>>
    /\ Last(trace).cmd = "child"
    /\ Last(trace).args = <<TokTail, TokR1>>
    /\ result = NoErr

\* Execute returned the error of level L, if it has one, and did nothing else
FailsWith(L) ==
    L.err # NoErr
        => /\ pc = "returned"
           /\ result = L.err
           /\ stack = <<>>
           /\ trace = <<>>
           /\ rendered = <<>>
           /\ exitStatus = -1

\* C8: when the parse of a level fails, Execute returns the error of that
\* level, no stack is handed to the executor, no usage is rendered by it and
\* no Initialize, Run or Destroy of any command is invoked.
C8_ParseFailure ==
    pc # "Execute" => FailsWith(Last(ExecLevels))

\* C8 witness: the root's flags parsed, the child's -o misses its value, and
\* both commands have lifecycle hooks.
C8_Witness ==
    /\ pc = "returned"
    /\ ops.args = <<TokR1, TokChild, TokO>>
    /\ {"root", "child"} \subseteq lifecycle
    /\ result = ErrMissingArg(TokO)
    /\ trace = <<>>

\* the arguments of level i are the name of the command of the next level
\* followed by everything that the next level is given to parse
NamesNextLevel(Ls, i) ==
    i < Len(Ls) => /\ Head(Ls[i].residual) = Name(Ls[i + 1].cmd)
                   /\ Tail(Ls[i].residual) = Ls[i + 1].input
                   /\ IsSuffix(Ls[i].residual, ops.args)

\* every hook called so far got the residual of its frame's level in Ls
HooksGetResiduals(Ls) ==
    \A k \in 1..Len(trace) :
        /\ trace[k].args = Ls[trace[k].frame].residual
        /\ NamesNextLevel(Ls, trace[k].frame)

\* C9: every hook of a frame is called with the residual of the frame's level
\* after its own flags were parsed; for a frame that is not the leaf the list
\* starts with the name of the next frame's command and goes on with all the
\* flags and arguments left to the levels below. For
\* `-o tail child -o --r=1 tail tail` the root's hooks get
\* [child -o --r=1 tail tail] and the child's hooks get [tail tail].
C9_HookArgs ==
    /\ trace # <<>> => HooksGetResiduals(ExecLevels)
    /\ ops.args = ExampleLifecycleArgs
         => \A k \in 1..Len(trace) :
              trace[k].args = IF trace[k].frame = 1
                              THEN <<TokChild, TokO, TokR1, TokTail, TokTail>>
                              ELSE <<TokTail, TokTail>>

\* C9 witness: the example ran to completion with lifecycle hooks on both
\* commands: five hooks were called.
C9_Witness ==
    /\ pc = "returned"
    /\ ops.args = ExampleLifecycleArgs
    /\ Len(trace) = 5
    /\ trace[1].args = <<TokChild, TokO, TokR1, TokTail, TokTail>>
    /\ trace[5].args = trace[1].args
    /\ trace[3].hook = "Run"
    /\ trace[3].args = <<TokTail, TokTail>>

\* ------------------------------------------------------------------------
\* Parse of a stand-alone flag set, one iteration of the parser's loop at a
\* time: boolean flags a and b, string flag c
\* ------------------------------------------------------------------------

TokABC == <<"-", "a", "b", "c">>
TokABCV == <<"-", "a", "b", "c", "V">>
TokAB == <<"-", "a", "b">>
TokA == <<"-", "a">>
TokB == <<"-", "b">>
TokC == <<"-", "c">>
TokCA == <<"-", "c", "a">>
TokAD == <<"-", "a", "d">>
TokX == <<"x">>

ParseTokens == {TokABC, TokABCV, TokAB, TokA, TokB, TokC, TokCA, TokAD, TokX, TokDashDash}

ParseVectors == SeqsUpTo(ParseTokens, MaxParseArgs)

\* fs.BoolVar(&b1, "a", false, ...), fs.BoolVar(&b2, "b", false, ...),
\* fs.StringVar(&output, "c", "-", ...)
ClusterFlagSet ==
    NewFlagSet(
        [n \in {<<"a">>, <<"b">>, <<"c">>} |-> n[1]],
        [i \in {"a", "b", "c"} |-> IF i = "c" THEN StringValue(<<"-">>) ELSE BoolValue(FALSE)])

InitParse ==
    /\ ops = [args |-> <<>>, interspersed |-> FALSE, bindEnv |-> FALSE, bindEnvPrefix |-> <<>>]
    /\ environ = <<>>
    /\ lifecycle = {}
    /\ ExecIdle
    /\ fset = ClusterFlagSet
    /\ given \in ParseVectors
    /\ arguments = <<>>
    /\ parseErr = NoErr
    /\ parsePc = "idle"
    /\ call = NoCall

\* Parse is called and enters parse: f.parsed = true
ParseCall ==
    /\ parsePc = "idle"
    /\ fset' = [fset EXCEPT !.parsed = TRUE]
    /\ arguments' = given
    /\ parsePc' = "parse"
    /\ UNCHANGED <<given, parseErr, call>>
    /\ UNCHANGED execVars

\* the state after an iteration r of the loop of parse
ParseArgDone(r) ==
    /\ fset' = r.fs
    /\ arguments' = r.arguments
    /\ parseErr' = r.err
    /\ parsePc' = IF r.done THEN "parsed" ELSE "parse"

\* one iteration of the loop of parse
ParseArg ==
    /\ parsePc = "parse"
    /\ Len(arguments) > 0
    /\ ParseArgDone(parseIter(fset, arguments))
    /\ UNCHANGED <<given, call>>
    /\ UNCHANGED execVars

\* the loop of parse ends with no argument left
ParseReturn ==
    /\ parsePc = "parse"
    /\ Len(arguments) = 0
    /\ fset' = [fset EXCEPT !.args = arguments]
    /\ parsePc' = "parsed"
    /\ UNCHANGED <<arguments, given, parseErr, call>>
    /\ UNCHANGED execVars

NextParse == ParseCall \/ ParseArg \/ ParseReturn

SpecParse == InitParse /\ [][NextParse]_vars

\* ------------------------------------------------------------------------
\* Properties of the parser
\* ------------------------------------------------------------------------

\* what a parse leaves: the flag values, the flags set, the residual, the error
Outcome(f, e) == [value |-> f.value, actual |-> f.actual, args |-> f.args, err |-> e]

OutcomeOf(r) == Outcome(r.fs, r.err)

\* the characters are boolean flags of f, then possibly a non-boolean flag of
\* f and its stuck value
RECURSIVE IsClusterOf(_, _)
IsClusterOf(f, chars) ==
    \/ chars = <<>>
    \/ /\ chars # <<>>
       /\ Lookup(f, <<Head(chars)>>)
       /\ isBoolFlag(f, <<Head(chars)>>) => IsClusterOf(f, Tail(chars))

\* token tok is a cluster of at least two short flags, or of a short flag and
\* its stuck value
IsCluster(f, tok) ==
    /\ Len(tok) >= 3
    /\ tok[1] = "-"
    /\ tok[2] # "-"
    /\ IsClusterOf(f, Tail(tok))

\* the cluster written out: one token per flag, the stuck value as a token
RECURSIVE Expand(_, _)
Expand(f, chars) ==
    IF chars = <<>> THEN <<>>
    ELSE IF isBoolFlag(f, <<Head(chars)>>)
         THEN << <<"-", Head(chars)>> >> \o Expand(f, Tail(chars))
    ELSE IF Tail(chars) = <<>> THEN << <<"-", Head(chars)>> >>
    ELSE << <<"-", Head(chars)>>, Tail(chars) >>

\* C10: a parse whose first token is a cluster of the boolean flags a, b and
\* the non-boolean flag c (`-abc` followed by x, or `-abcV`) ends with the
\* same flag values, the same set of flags set, the same residual and the same
\* error as the parse of the arguments in which the cluster is written out
\* (`-a -b -c x`, `-a -b -c V`); after `-abc x` a and b are true, c is x and
\* nothing is left.
C10_ClusterEquivalence ==
    /\ (parsePc = "parsed" /\ given # <<>> /\ IsCluster(ClusterFlagSet, Head(given)))
         => Outcome(fset, parseErr)
              = OutcomeOf(Parse(ClusterFlagSet,
                                Expand(ClusterFlagSet, Tail(Head(given))) \o Tail(given)))
    /\ (parsePc = "parsed" /\ given \in {<<TokABC, TokX>>, <<TokABCV>>})
         => /\ parseErr = NoErr
            /\ ValueOf(fset, <<"a">>) = TextTrue
            /\ ValueOf(fset, <<"b">>) = TextTrue
            /\ ValueOf(fset, <<"c">>) = IF given = <<TokABCV>> THEN <<"V">> ELSE TokX
            /\ fset.actual = {<<"a">>, <<"b">>, <<"c">>}
            /\ fset.args = <<>>

\* C10 witness: `-abc x -ab` was parsed: c took x and the residual is empty.
C10_Witness ==
    /\ parsePc = "parsed"
    /\ given = <<TokABC, TokX, TokAB>>
    /\ ValueOf(fset, <<"c">>) = TokX
    /\ fset.args = <<>>

\* ------------------------------------------------------------------------
\* Parse of a flag set with the string flags output and o, the boolean flag
\* O and, when the application defines them, the boolean flags help and h
\* ------------------------------------------------------------------------

TokDash == <<"-">>
TokOutput == <<"-", "-", "o", "u", "t", "p", "u", "t">>
TokOutputYZ == <<"-", "-", "o", "u", "t", "p", "u", "t", "=", "y", "=", "z">>
TokShortO == <<"-", "o">>
TokShortOY == <<"-", "o", "y">>
TokBigO == <<"-", "O">>
TokHelpFalse == <<"-", "-", "h", "e", "l", "p", "=", "f", "a", "l", "s", "e">>
TokBigOH == <<"-", "O", "h">>

PosixTokens ==
    {TokDashDash, TokDash, TokX, TokOutput, TokOutputYZ, TokShortO, TokShortOY, TokBigO,
     TokHelp, TokHelpFalse, TokHelpX, TokH, TokBigOH}

PosixVectors == SeqsUpTo(PosixTokens, MaxParseArgs)

NameOutput == <<"o", "u", "t", "p", "u", "t">>

\* fs.StringVar(&output, "output", "-", ...), fs.StringVar(&short, "o", "-", ...),
\* fs.BoolVar(&b1, "O", false, ...) and, if userHelp,
\* fs.BoolVar(&help, "help", false, ...), fs.BoolVar(&help, "h", false, ...)
TestFlagSet(helpNames) ==
    NewFlagSet(
        [n \in {NameOutput, <<"o">>, <<"O">>} \cup helpNames |->
            IF n = NameOutput THEN "output"
            ELSE IF n = <<"o">> THEN "o"
            ELSE IF n = <<"O">> THEN "O" ELSE "help"],
        [i \in {"output", "o", "O", "help"} |->
            IF i \in {"output", "o"} THEN StringValue(<<"-">>) ELSE BoolValue(FALSE)])

InitPosix ==
    /\ ops = [args |-> <<>>, interspersed |-> FALSE, bindEnv |-> FALSE, bindEnvPrefix |-> <<>>]
    /\ environ = <<>>
    /\ lifecycle = {}
    /\ ExecIdle
    /\ fset \in {TestFlagSet(names) : names \in SUBSET {NameHelp, NameH}}
    /\ given \in PosixVectors
    /\ arguments = <<>>
    /\ parseErr = NoErr
    /\ parsePc = "idle"
    /\ call = NoCall

SpecPosix == InitPosix /\ [][NextParse]_vars

\* the scanner of parse is at token tok: tok is the next argument it looks at
ScannerAt(tok) == parsePc = "parse" /\ arguments # <<>> /\ Head(arguments) = tok

\* parse returns nil with the given residual, no flag changed
StopsWith(residual) ==
    /\ parsePc' = "parsed"
    /\ parseErr' = NoErr
    /\ fset'.args = residual
    /\ Registry(fset') = Registry(fset)

\* the elements of a sequence
Range(s) == {s[i] : i \in 1..Len(s)}

\* C11 as stated: `--` is never in the residual left by a parse, and when the
\* scanner reaches it the parse ends, no token after it changes a flag and all
\* of them are the residual.
C11_Original ==
    /\ [](parsePc = "parsed" => TokDashDash \notin Range(fset.args))
    /\ [][ScannerAt(TokDashDash) => StopsWith(Tail(arguments))]_vars

\* C11 amended: when the scanner reaches a bare `--` the parse ends without
\* error, that `--` is not in the residual, no token after it changes a flag
\* and the residual is exactly the tokens after it in their order; a `--`
\* that stands after the token that ended the scan stays in the residual.
C11_Terminator ==
    [][ScannerAt(TokDashDash) => StopsWith(Tail(arguments))]_vars

\* C11 witness: `-- -oy --` was parsed: the residual is [-oy --] and o keeps
\* its default.
C11_Witness ==
    /\ parsePc = "parsed"
    /\ given = <<TokDashDash, TokShortOY, TokDashDash>>
    /\ fset.args = <<TokShortOY, TokDashDash>>
    /\ ValueOf(fset, <<"o">>) = <<"-">>
    /\ fset.actual = {}

\* C12: when the scanner reaches a bare `-` the parse ends without error, the
\* residual is `-` followed by every token after it, and no flag changes.
C12_SingleHyphen ==
    [][ScannerAt(TokDash) => StopsWith(arguments)]_vars

\* C12 witness: `-O - -oy` was parsed: the residual is [- -oy] and only O is set.
C12_Witness ==
    /\ parsePc = "parsed"
    /\ given = <<TokBigO, TokDash, TokShortOY>>
    /\ parseErr = NoErr
    /\ fset.args = <<TokDash, TokShortOY>>
    /\ fset.actual = {<<"O">>}

\* the token does not begin with a hyphen
IsArgument(tok) == ~HasPrefix(tok, <<"-">>)

\* C13: when the scanner reaches a token that is not a flag the parse ends
\* without error, the residual is that token followed by every token after
\* it, flag-like or not, and no flag changes.
C13_StopsAtArgument ==
    [][(parsePc = "parse" /\ arguments # <<>> /\ IsArgument(Head(arguments)))
          => StopsWith(arguments)]_vars

\* C13 witness: `-O x -oy` was parsed: the residual is [x -oy] and o keeps its
\* default.
C13_Witness ==
    /\ parsePc = "parsed"
    /\ given = <<TokBigO, TokX, TokShortOY>>
    /\ parseErr = NoErr
    /\ fset.args = <<TokX, TokShortOY>>
    /\ ValueOf(fset, <<"o">>) = <<"-">>
    /\ fset.actual = {<<"O">>}

\* the token is a long flag
IsLong(tok) == HasPrefix(tok, <<"-", "-">>) /\ tok # TokDashDash

\* the text of a long flag token after the two hyphens
LongText(tok) == SubSeq(tok, 3, Len(tok))

\* the position of the first '=' of a text, 0 if it has none
FirstEquals(text) ==
    IF \E i \in 1..Len(text) : text[i] = "="
    THEN CHOOSE i \in 1..Len(text) : text[i] = "=" /\ \A j \in 1..(i - 1) : text[j] # "="
    ELSE 0

\* the name of a long flag token: the text up to the first '='
LongName(tok) ==
    IF FirstEquals(LongText(tok)) = 0 THEN LongText(tok)
    ELSE SubSeq(LongText(tok), 1, FirstEquals(LongText(tok)) - 1)

\* the text of a long flag token after its first '='
LongValue(tok) == SubSeq(LongText(tok), FirstEquals(LongText(tok)) + 1, Len(LongText(tok)))

\* the step hands text to the Set of flag name and leaves rest to scan: if the
\* flag takes the text it holds it, is recorded as set and the scan goes on
\* with rest; if not, the parse ends with the error of Set; no other flag
\* changes.
StepSets(name, text, rest) ==
    /\ \A n \in DOMAIN fset.formal :
         fset.formal[n] # fset.formal[name] => ValueOf(fset', n) = ValueOf(fset, n)
    /\ IF Value_Set(FlagValue(fset, name), text).err = NoErr
       THEN /\ ValueOf(fset', name) = (IF isBoolFlag(fset, name)
                                       THEN (IF text \in Truthy THEN TextTrue ELSE TextFalse)
                                       ELSE text)
            /\ fset'.actual = fset.actual \cup {name}
            /\ arguments' = rest
            /\ parsePc' = "parse"
            /\ parseErr' = NoErr
       ELSE /\ Registry(fset') = Registry(fset)
            /\ parsePc' = "parsed"
            /\ parseErr' = Value_Set(FlagValue(fset, name), text).err

\* the parse ends with error e, no flag changed
StepFails(e) ==
    /\ parsePc' = "parsed"
    /\ parseErr' = e
    /\ Registry(fset') = Registry(fset)

\* what the claim says of a step that looks at the long flag token tok of a
\* registered flag, the tokens after it being rest
LongFlagStep(tok, rest) ==
    IF FirstEquals(LongText(tok)) # 0 THEN StepSets(LongName(tok), LongValue(tok), rest)
    ELSE IF isBoolFlag(fset, LongName(tok)) THEN StepSets(LongName(tok), TextTrue, rest)
    ELSE IF rest # <<>> THEN StepSets(LongName(tok), Head(rest), Tail(rest))
    ELSE StepFails(ErrMissingArg(<<"-", "-">> \o LongName(tok)))

\* C14: a step of the parse at a long flag token of a registered flag: with
\* an `=` in the token the flag is set to the text after the first `=`;
\* without, a boolean flag is set to true and the next argument is left to
\* scan, a non-boolean flag is set to the next argument, which is consumed,
\* and if there is none the parse fails with the missing-argument error that
\* names the flag.
C14_LongFlag ==
    [][(/\ parsePc = "parse"
        /\ arguments # <<>>
        /\ IsLong(Head(arguments))
        /\ Lookup(fset, LongName(Head(arguments))))
          => LongFlagStep(Head(arguments), Tail(arguments))]_vars

\* C14 witness: `--output=y=z --help --output` was parsed with help defined
\* by the application: output is y=z, help is true and the last --output
\* misses its argument.
C14_Witness ==
    /\ parsePc = "parsed"
    /\ given = <<TokOutputYZ, TokHelp, TokOutput>>
    /\ ValueOf(fset, NameOutput) = <<"y", "=", "z">>
    /\ Lookup(fset, NameHelp)
    /\ ValueOf(fset, NameHelp) = TextTrue
    /\ parseErr = ErrMissingArg(TokOutput)

\* the flag set as the application registered it, before Parse
InitialFlagSet == TestFlagSet({n \in {NameHelp, NameH} : Lookup(fset, n)})

\* a token that is an argument: a bare hyphen or a token without a hyphen
IsPositional(tok) == tok = TokDash \/ IsArgument(tok)

NoOccurrences == [ok |-> FALSE, occs |-> <<>>, residual |-> <<>>]

\* the occurrence of flag name with value text, before the occurrences r
Occurrence(name, text, r) ==
    [ok |-> r.ok, occs |-> << [name |-> name, text |-> text] >> \o r.occs,
     residual |-> r.residual]

\* the reading of an argument vector as flags of f with their values,
\* followed by arguments: ok tells that the vector has this form, occs are
\* the flag occurrences in order, residual is the trailing run of arguments
RECURSIVE Occurrences(_, _)
Occurrences(f, toks) ==
    IF toks = <<>> THEN [ok |-> TRUE, occs |-> <<>>, residual |-> <<>>]
    ELSE IF IsPositional(Head(toks))
    THEN [ok |-> \A i \in 1..Len(toks) : IsPositional(toks[i]), occs |-> <<>>,
          residual |-> toks]
    ELSE IF Head(toks) = TokDashDash THEN NoOccurrences
    ELSE IF IsLong(Head(toks))
    THEN IF ~Lookup(f, LongName(Head(toks))) THEN NoOccurrences
         ELSE IF FirstEquals(LongText(Head(toks))) # 0
         THEN Occurrence(LongName(Head(toks)), LongValue(Head(toks)),
                         Occurrences(f, Tail(toks)))
         ELSE IF isBoolFlag(f, LongName(Head(toks)))
         THEN Occurrence(LongName(Head(toks)), TextTrue, Occurrences(f, Tail(toks)))
         ELSE IF Len(toks) = 1 THEN NoOccurrences
         ELSE Occurrence(LongName(Head(toks)), toks[2], Occurrences(f, Tail(Tail(toks))))
    ELSE IF Len(Head(toks)) > 2
    THEN IF IsClusterOf(f, Tail(Head(toks)))
         THEN Occurrences(f, Expand(f, Tail(Head(toks))) \o Tail(toks))
         ELSE NoOccurrences
    ELSE IF ~Lookup(f, Tail(Head(toks))) THEN NoOccurrences
    ELSE IF isBoolFlag(f, Tail(Head(toks)))
    THEN Occurrence(Tail(Head(toks)), TextTrue, Occurrences(f, Tail(toks)))
    ELSE IF Len(toks) = 1 THEN NoOccurrences
    ELSE Occurrence(Tail(Head(toks)), toks[2], Occurrences(f, Tail(Tail(toks))))

\* every occurrence has a value that its flag accepts
Accepted(f, occs) ==
    \A k \in 1..Len(occs) : Value_Set(FlagValue(f, occs[k].name), occs[k].text).err = NoErr

\* the occurrences that set the value that flag name of f reads
OccurrencesOf(f, occs, name) ==
    {k \in 1..Len(occs) : f.formal[occs[k].name] = f.formal[name]}

\* the greatest element of a non-empty set of numbers
Max(S) == CHOOSE m \in S : \A k \in S : k <= m

\* the value of a flag after text was set
Held(f, name, text) ==
    IF isBoolFlag(f, name) THEN (IF text \in Truthy THEN TextTrue ELSE TextFalse) ELSE text

\* the value flag name of f holds after the occurrences: that of the last one
\* that sets it, its default without one
LastValue(f, occs, name) ==
    IF OccurrencesOf(f, occs, name) = {} THEN ValueOf(f, name)
    ELSE Held(f, name, occs[Max(OccurrencesOf(f, occs, name))].text)

\* the parse of a vector read as r ended as the claim says
ParsedAs(f, r) ==
    (r.ok /\ Accepted(f, r.occs))
        => /\ parseErr = NoErr
           /\ fset.args = r.residual
           /\ fset.actual = {r.occs[k].name : k \in 1..Len(r.occs)}
           /\ \A n \in DOMAIN f.formal : ValueOf(fset, n) = LastValue(f, r.occs, n)

\* C15: the parse of a vector that consists of registered long and short
\* flags with their values, followed by arguments only, ends without error;
\* every flag holds the value of its last occurrence in the vector, a flag
\* without occurrence its default, and the residual is the trailing run of
\* arguments.
C15_LastOccurrence ==
    parsePc = "parsed" => ParsedAs(InitialFlagSet, Occurrences(InitialFlagSet, given))

\* C15 witness: `--help --help=false x` was parsed with help defined by the
\* application: help is false again and the residual is [x].
C15_Witness ==
    /\ parsePc = "parsed"
    /\ given = <<TokHelp, TokHelpFalse, TokX>>
    /\ Lookup(fset, NameHelp)
    /\ ValueOf(fset, NameHelp) = TextFalse
    /\ fset.actual = {NameHelp}
    /\ fset.args = <<TokX>>

\* the scan of the short-flag cluster chars by f reaches a character h: the
\* characters before it are boolean flags of f
RECURSIVE ReachesH(_, _)
ReachesH(f, chars) ==
    /\ chars # <<>>
    /\ \/ <<Head(chars)>> = NameH
       \/ /\ Lookup(f, <<Head(chars)>>)
          /\ isBoolFlag(f, <<Head(chars)>>)
          /\ ReachesH(f, Tail(chars))

\* a short flag token: one hyphen and at least one character after it
IsShort(tok) == Len(tok) > 1 /\ tok[1] = "-" /\ tok[2] # "-"

\* the name of the help flag that the scan of token tok by f comes to, <<>>
\* if it comes to none
HelpNameAt(f, tok) ==
    IF IsLong(tok) /\ LongName(tok) = NameHelp THEN NameHelp
    ELSE IF IsShort(tok) /\ ReachesH(f, Tail(tok)) THEN NameH
    ELSE <<>>

\* what the claim says of a step that comes to the help flag name
HelpStep(name, tok, rest) ==
    IF ~Lookup(fset, name)
    THEN parsePc' = "parsed" /\ parseErr' = ErrHelp
    ELSE /\ parseErr' # ErrHelp
         /\ parseErr' # ErrNoSuchFlag(tok)
         /\ IF name = NameHelp THEN LongFlagStep(tok, rest)
            ELSE /\ ValueOf(fset', NameH) = TextTrue
                 /\ NameH \in fset'.actual
                 /\ parseErr' = NoErr
                 /\ parsePc' = "parse"
                 /\ arguments' = rest

\* C16: a step of the parse that comes to `--help`, or to `-h` as a token of
\* its own or as a character of a cluster: if the flag set has no flag of
\* that name the parse ends with ErrHelp, not with the error of an unknown
\* flag; if the application registered the name the token is handled as the
\* flag it names and the parse does not end with ErrHelp.
C16_HelpFlag ==
    [][(/\ parsePc = "parse"
        /\ arguments # <<>>
        /\ HelpNameAt(fset, Head(arguments)) # <<>>)
          => HelpStep(HelpNameAt(fset, Head(arguments)), Head(arguments), Tail(arguments))]_vars

\* C16 witness: `-Oh --help` was parsed by a flag set with h registered and
\* help not: O and h are true and the parse ended with ErrHelp at --help.
C16_Witness ==
    /\ parsePc = "parsed"
    /\ given = <<TokBigOH, TokHelp>>
    /\ Lookup(fset, NameH) /\ ~Lookup(fset, NameHelp)
    /\ ValueOf(fset, NameH) = TextTrue
    /\ ValueOf(fset, <<"O">>) = TextTrue
    /\ parseErr = ErrHelp

\* ------------------------------------------------------------------------
\* Help flags
\* ------------------------------------------------------------------------

\* the command line names help-cmd, the subcommand of root that registers h
\* and help itself, as the first argument of root
NamesHelpCommand == ops.args # <<>> /\ Head(ops.args) = TokHelpCmd

\* C17 as stated: a command whose InitializeFlags registers h and help itself
\* executes without a registration failure: it becomes the leaf frame, a
\* `--help` given to it sets the command's own flag and renders no usage
\* text, and Execute returns nil when its hooks do.
C17_Original ==
    (pc # "Execute" /\ NamesHelpCommand)
        => /\ pc # "panicked"
           /\ stack # <<>>
           /\ Last(stack).cmd = HelpCommand
           /\ rendered = <<>>
           /\ Tail(ops.args) = <<TokHelp>>
                => ValueOf(Last(stack).fs, NameHelp) = TextTrue
           /\ (pc = "returned" /\ AllReturnedNil) => result = NoErr

\* C18 as stated: when `-h` or `--help` was given to a command that does not
\* define the help flags, Execute returns an error err for which
\* errors.Is(err, ErrShowUsage) is true.
C18_Original ==
    (pc = "returned" /\ stack # <<>> /\ helpRequested(stack)) => IsShowUsage(result)

\* ------------------------------------------------------------------------
\* Interspersed arguments and the terminator
\* ------------------------------------------------------------------------

\* the part of the command line that is given to grandchild
LeafVector == SubSeq(ops.args, 3, Len(ops.args))

LeafFlagSet == FrameFlagSet("grandchild")

\* the argument tok, before what r reads
Positional(tok, r) ==
    [ok |-> r.ok, occs |-> r.occs, residual |-> <<tok>> \o r.residual]

\* the reading of an argument vector as flags of f with their values and
\* arguments in any order, up to the first `--`, and arguments after it: occs
\* are the flag occurrences in order, residual the arguments in order
RECURSIVE InterspersedReading(_, _)
InterspersedReading(f, toks) ==
    IF toks = <<>> THEN [ok |-> TRUE, occs |-> <<>>, residual |-> <<>>]
    ELSE IF Head(toks) = TokDashDash
    THEN [ok |-> TRUE, occs |-> <<>>, residual |-> Tail(toks)]
    ELSE IF IsPositional(Head(toks))
    THEN Positional(Head(toks), InterspersedReading(f, Tail(toks)))
    ELSE IF IsLong(Head(toks))
    THEN IF ~Lookup(f, LongName(Head(toks))) THEN NoOccurrences
         ELSE IF FirstEquals(LongText(Head(toks))) # 0
         THEN Occurrence(LongName(Head(toks)), LongValue(Head(toks)),
                         InterspersedReading(f, Tail(toks)))
         ELSE IF isBoolFlag(f, LongName(Head(toks)))
         THEN Occurrence(LongName(Head(toks)), TextTrue, InterspersedReading(f, Tail(toks)))
         ELSE IF Len(toks) = 1 THEN NoOccurrences
         ELSE Occurrence(LongName(Head(toks)), toks[2],
                         InterspersedReading(f, Tail(Tail(toks))))
    ELSE IF Len(Head(toks)) > 2
    THEN IF IsClusterOf(f, Tail(Head(toks)))
         THEN InterspersedReading(f, Expand(f, Tail(Head(toks))) \o Tail(toks))
         ELSE NoOccurrences
    ELSE IF ~Lookup(f, Tail(Head(toks))) THEN NoOccurrences
    ELSE IF isBoolFlag(f, Tail(Head(toks)))
    THEN Occurrence(Tail(Head(toks)), TextTrue, InterspersedReading(f, Tail(toks)))
    ELSE IF Len(toks) = 1 THEN NoOccurrences
    ELSE Occurrence(Tail(Head(toks)), toks[2], InterspersedReading(f, Tail(Tail(toks))))

\* every call of Run so far got args
RunReceived(args) ==
    \A k \in 1..Len(trace) : trace[k].hook = "Run" => trace[k].args = args

\* grandchild ran as the reading r of its part of the command line says
RunsAsRead(f, r) ==
    (r.ok /\ Accepted(f, r.occs))
        => /\ Len(stack) = 3
           /\ \A n \in DOMAIN f.formal : ValueOf(Last(stack).fs, n) = LastValue(f, r.occs, n)
           /\ Last(stack).args = r.residual
           /\ RunReceived(r.residual)

\* C19 as stated: with the option for interspersed arguments, the flags of a
\* command without subcommands are recognised wherever they stand among the
\* arguments: every flag occurrence before the first `--` is applied, and Run
\* receives the arguments in their order followed by the tokens after `--`.
C19_Original ==
    (pc # "Execute" /\ ops.interspersed)
        => RunsAsRead(LeafFlagSet, InterspersedReading(LeafFlagSet, LeafVector))

\* the position of the first `--` in a vector that has one
FirstTerminator(v) ==
    CHOOSE i \in 1..Len(v) : v[i] = TokDashDash /\ \A j \in 1..(i - 1) : v[j] # TokDashDash

\* the tokens after the first `--` of v, the parse of the tokens before it
\* being p: if that parse has no error, Execute has none, the flags are as
\* that parse left them and the tokens are the end of the arguments of Run
TerminatorEnds(v, i, p) ==
    p.err = NoErr
        => /\ Len(stack) = 3
           /\ Registry(Last(stack).fs) = Registry(p.fs)
           /\ IsSuffix(SubSeq(v, i + 1, Len(v)), Last(stack).args)
           /\ \A k \in 1..Len(trace) :
                trace[k].hook = "Run" => IsSuffix(SubSeq(v, i + 1, Len(v)), trace[k].args)

\* C20 as stated: `--` ends flag parsing, with and without the option for
\* interspersed arguments: however many tokens follow the first `--`, none of
\* them changes a flag value or raises a parse error, and all of them reach
\* the Run of the leaf command as arguments in their order.
C20_Original ==
    (pc # "Execute" /\ TokDashDash \in Range(LeafVector))
        => TerminatorEnds(LeafVector, FirstTerminator(LeafVector),
                          parseArgs("grandchild", LeafFlagSet,
                                    SubSeq(LeafVector, 1, FirstTerminator(LeafVector) - 1),
                                    ops))

\* ------------------------------------------------------------------------
\* Environment binding
\* ------------------------------------------------------------------------

\* a name with every character that is no letter and no digit removed
RECURSIVE Stripped(_)
Stripped(v) ==
    IF v = <<>> THEN <<>>
    ELSE (IF Head(v) \in Alnum THEN <<Head(v)>> ELSE <<>>) \o Stripped(Tail(v))

\* a name in upper case
RECURSIVE InUpperCase(_)
InUpperCase(v) ==
    IF v = <<>> THEN <<>>
    ELSE <<IF Head(v) \in DOMAIN UpperOf THEN UpperOf[Head(v)] ELSE Head(v)>>
         \o InUpperCase(Tail(v))

\* the variable of flag name of the command at the end of path: the prefix,
\* then the names of the path and of the flag, each stripped and in upper
\* case, with `_` between them
RECURSIVE VariableOf(_, _, _)
VariableOf(prefix, path, name) ==
    IF path = <<>> THEN prefix \o InUpperCase(Stripped(name))
    ELSE VariableOf(prefix \o InUpperCase(Stripped(Head(path))) \o <<"_">>, Tail(path), name)

\* the variables looked up for the flags names of the command at the end of
\* path are those of VariableOf, whether append reuses the array or not
VariablesAsNamed(prefix, path, names) ==
    \A reuse \in BOOLEAN :
        bindVariables(path, names, prefix, reuse)
            = [i \in 1..Len(names) |-> VariableOf(prefix, path, names[i])]

\* C21: the variable consulted for a flag is the prefix followed by the names
\* of the commands from the root to the frame's command and the name of the
\* flag, each in upper case and without the characters outside [A-Za-z0-9],
\* joined with `_`; it is the same whatever flags of the frame were looked up
\* before it. Flag page-count of show under root bind-env has the variable
\* BINDENV_SHOW_PAGECOUNT.
C21_VariableName ==
    /\ \A i \in 1..Len(stack) :
         VariablesAsNamed(ops.bindEnvPrefix,
                          [k \in 1..i |-> Name(stack[k].cmd)],
                          VisitAll(stack[i].fs))
    /\ bindVariables(<<TokBindEnv, TokShow>>, <<NameFormat, NamePageCount>>, <<>>, TRUE)[2]
         = <<"B", "I", "N", "D", "E", "N", "V", "_", "S", "H", "O", "W", "_",
             "P", "A", "G", "E", "C", "O", "U", "N", "T">>

\* C21 witness: show ran under root and bind-env with the variable of
\* page-count set under the prefix: page-count, the last flag visited after
\* format, h and help, took the value of APP_ROOT_BINDENV_SHOW_PAGECOUNT.
C21_Witness ==
    /\ pc = "returned"
    /\ ops.bindEnv
    /\ ops.bindEnvPrefix = EnvPrefix
    /\ environ = Setenv(VarPrefixedPageCount, <<"2", "0">>)
    /\ Len(stack) = 3
    /\ Last(stack).cmd = ShowCommand
    /\ VisitAll(Last(stack).fs) = <<NameFormat, NameH, NameHelp, NamePageCount>>
    /\ ValueOf(Last(stack).fs, NamePageCount) = <<"2", "0">>
    /\ Last(trace).hook = "Run"

\* the names of the commands of the first i frames
PathOf(i) == [k \in 1..i |-> Name(stack[k].cmd)]

\* the value that flag name of f, registered by the command at the end of
\* path, has before the command line is parsed: that of its variable if
\* binding is enabled and the variable is set, else its default
Preset(f, path, name) ==
    IF ops.bindEnv /\ VariableOf(ops.bindEnvPrefix, path, name) \in DOMAIN environ
    THEN Held(f, name, environ[VariableOf(ops.bindEnvPrefix, path, name)])
    ELSE ValueOf(f, name)

\* the flags of frame i, registered as f and given the occurrences of r on
\* the command line, hold the value of their last occurrence, and without
\* one the value of their variable or their default
EnvironmentIsDefault(i, f, r) ==
    (r.ok /\ Accepted(f, r.occs))
        => \A n \in DOMAIN f.formal :
             ValueOf(stack[i].fs, n)
                 = IF OccurrencesOf(f, r.occs, n) # {}
                   THEN LastValue(f, r.occs, n)
                   ELSE Preset(f, PathOf(i), n)

RejectedByFlag(f, path) ==
    {n \in DOMAIN f.formal :
        /\ VariableOf(ops.bindEnvPrefix, path, n) \in DOMAIN environ
        /\ Value_Set(FlagValue(f, n), environ[VariableOf(ops.bindEnvPrefix, path, n)]).err # NoErr}

\* the command line leads to show
LeadsToShow == Len(ops.args) >= 2 /\ SubSeq(ops.args, 1, 2) = <<TokBindEnv, TokShow>>

\* C23: when a flag rejects the value of its variable, Execute returns an
\* error that is ErrEnvironmentBindFailure, and calls no hook; an error of
\* Execute is ErrEnvironmentBindFailure only if binding is enabled and the
\* variable it names holds a value that the flag it names rejects, so the
\* error of a value rejected on the command line is none.
C23_BindFailure ==
    /\ (pc # "Execute" /\ ops.bindEnv /\ LeadsToShow
          /\ RejectedByFlag(ShowFlagSet, <<TokRoot, TokBindEnv, TokShow>>) # {})
         => /\ pc = "returned"
            /\ IsEnvironmentBindFailure(result)
            /\ result.flag \in RejectedByFlag(ShowFlagSet, <<TokRoot, TokBindEnv, TokShow>>)
            /\ trace = <<>>
    /\ (pc = "returned" /\ IsEnvironmentBindFailure(result))
         => /\ ops.bindEnv
            /\ result.variable \in DOMAIN environ
            /\ result.cause = ErrSyntax(environ[result.variable])
    /\ (pc = "returned" /\ ops.args = <<TokBindEnv, TokShow, TokPageCountX>>
          /\ ~(ops.bindEnv /\ VarPageCount \in DOMAIN environ /\ environ[VarPageCount] = <<"x">>))
         => result = ErrSyntax(<<"x">>) /\ ~IsEnvironmentBindFailure(result)

\* C23 witness: page-count rejected the x of its variable and Execute
\* returned ErrEnvironmentBindFailure for `bind-env show --page-count=5`.
C23_Witness ==
    /\ pc = "returned"
    /\ ops.bindEnv
    /\ ops.args = <<TokBindEnv, TokShow, TokPageCount5>>
    /\ environ = Setenv(VarPageCount, <<"x">>)
    /\ result = ErrEnvironmentBindFailure(NamePageCount, VarPageCount, ErrSyntax(<<"x">>))
    /\ stack = <<>>

\* ------------------------------------------------------------------------
\* Contexts
\* ------------------------------------------------------------------------

\* a hook of the frame whose call of execute is running is called next
HookPending ==
    /\ pc = "execute"
    /\ \/ phase = "run"
       \/ phase \in {"onInit", "onDestroy"} /\ HasLifecycle(stack[pos])

\* C24 as stated: the context passed to a hook is cancelled when Execute
\* returns, with or without error, and not before: it is still uncancelled
\* when any later hook of the same Execute, the Destroy of an ancestor
\* included, is called.
C24_Original ==
    /\ HookPending => \A k \in 1..Len(trace) : trace[k].frame \notin cancelled
    /\ pc = "returned" => \A k \in 1..Len(trace) : trace[k].frame \in cancelled

\* ------------------------------------------------------------------------
\* A flag set under construction: FlagSet.Var, FlagSet.Set and Parse
\* ------------------------------------------------------------------------

\* a letter that is not an ASCII letter
NonAsciiLetter == "é"

\* unicode.IsLetter on the characters of the model
Letters ==
    {LowerCase[i] : i \in 1..Len(LowerCase)} \cup {UpperCase[i] : i \in 1..Len(UpperCase)}
        \cup {NonAsciiLetter}

IsLetter(c) == c \in Letters

\* unicode.IsDigit on the characters of the model
IsDigit(c) == c \in {Digits[i] : i \in 1..Len(Digits)}

\* the test of strings.ContainsFunc in FlagSet.Var
invalid(name) ==
    \E i \in 1..Len(name) :
        ~IsLetter(name[i]) /\ ~IsDigit(name[i]) /\ name[i] # "-" /\ name[i] # "."

\* f.flags[name] = &Flag{Name: name, Value: value, ...}: inst is the
\* identity of the value instance and val what it holds
Register(f, inst, val, name) ==
    [f EXCEPT !.formal = (name :> inst) @@ @,
              !.value = IF inst \in DOMAIN @ THEN @ ELSE (inst :> val) @@ @]

\* FlagSet.Var: the flag set after the call, and whether the call panicked
Var(f, inst, val, name) ==
    IF HasPrefix(name, <<"-">>) THEN [fs |-> f, panic |-> TRUE]
    ELSE IF IsSuffix(<<"-">>, name) THEN [fs |-> f, panic |-> TRUE]
    ELSE IF invalid(name) THEN [fs |-> f, panic |-> TRUE]
    ELSE IF Lookup(f, name) THEN [fs |-> f, panic |-> TRUE]
    ELSE [fs |-> Register(f, inst, val, name), panic |-> FALSE]

NameQ == <<"q">>
NameEmpty == <<>>
NameNonAscii == <<NonAsciiLetter>>
NameLeadingHyphen == <<"-", "o">>
NameTrailingHyphen == <<"o", "-">>
NameWithEquals == <<"o", "=", "o">>

\* the names given to Var
FlagNames ==
    {NameOutput, <<"o">>, NameEmpty, NameNonAscii, NameLeadingHyphen, NameTrailingHyphen,
     NameWithEquals}

\* a new value instance for a flag: fs.String(name, "-", ...), fs.Bool(name, false, ...)
NewValues(name) ==
    {[inst |-> name, val |-> StringValue(<<"-">>)], [inst |-> name, val |-> BoolValue(FALSE)]}

\* the value instance of a registered flag: fs.Var(fs.Lookup(n).Value, name, ...)
SharedValues(f) == {[inst |-> f.formal[n], val |-> FlagValue(f, n)] : n \in DOMAIN f.formal}

VarReturns(r, v, name) ==
    /\ fset' = r.fs
    /\ parsePc' = IF r.panic THEN "panicked" ELSE parsePc
    /\ call' = [op |-> "Var", name |-> name, text |-> <<>>, inst |-> v.inst, before |-> fset,
                panic |-> r.panic]

\* a call of FlagSet.Var, before the flag set is parsed
VarCall ==
    /\ parsePc = "idle"
    /\ Cardinality(DOMAIN fset.formal) < MaxFlags
    /\ \E name \in FlagNames :
         \E v \in NewValues(name) \cup SharedValues(fset) :
            VarReturns(Var(fset, v.inst, v.val, name), v, name)
    /\ UNCHANGED <<arguments, given, parseErr>>
    /\ UNCHANGED execVars

\* the names and texts given to FlagSet.Set
SetNames == {NameOutput, <<"o">>, NameQ}
SetTexts == {TextTrue, TokX}

SetReturns(r, name, text) ==
    /\ fset' = r.fs
    /\ parseErr' = r.err
    /\ call' = [op |-> "Set", name |-> name, text |-> text, inst |-> <<>>, before |-> fset,
                panic |-> FALSE]

\* a call of FlagSet.Set, before the flag set is parsed
SetCall ==
    /\ parsePc = "idle"
    /\ \E name \in SetNames : \E text \in SetTexts : SetReturns(Set(fset, name, text), name, text)
    /\ UNCHANGED <<arguments, given, parsePc>>
    /\ UNCHANGED execVars

TokOutputTestOut ==
    <<"-", "-", "o", "u", "t", "p", "u", "t", "=", "t", "e", "s", "t", ".", "o", "u", "t">>
TokTest1Out == <<"t", "e", "s", "t", "-", "1", ".", "o", "u", "t">>

FlagTokens == {TokOutputTestOut, TokShortO, TokTest1Out}

FlagVectors == SeqsUpTo(FlagTokens, MaxFlagArgs)

ParseReturns(r, v) ==
    /\ fset' = r.fs
    /\ parseErr' = r.err
    /\ given' = v
    /\ parsePc' = "parsed"
    /\ call' = [op |-> "Parse", name |-> <<>>, text |-> <<>>, inst |-> <<>>, before |-> fset,
                panic |-> FALSE]

\* a call of PosixFlagSet.Parse on the flag set
FlagsParse ==
    /\ parsePc = "idle"
    /\ \E v \in FlagVectors : ParseReturns(Parse(fset, v), v)
    /\ UNCHANGED arguments
    /\ UNCHANGED execVars

InitFlags ==
    /\ ops = [args |-> <<>>, interspersed |-> FALSE, bindEnv |-> FALSE, bindEnvPrefix |-> <<>>]
    /\ environ = <<>>
    /\ lifecycle = {}
    /\ ExecIdle
    /\ ParseIdle

NextFlags == VarCall \/ SetCall \/ FlagsParse

SpecFlags == InitFlags /\ [][NextFlags]_vars

\* C25 as stated: a call of Var panics if the name is empty, begins or ends
\* with a hyphen, contains a character outside [A-Za-z0-9.-], or is
\* registered already.
C25_Original ==
    (/\ call.op = "Var"
     /\ \/ call.name = <<>>
        \/ HasPrefix(call.name, <<"-">>)
        \/ IsSuffix(<<"-">>, call.name)
        \/ \E i \in 1..Len(call.name) : call.name[i] \notin Alnum \cup {".", "-"}
        \/ Lookup(call.before, call.name))
        => call.panic

\* the value of flag name accepts text: a string value accepts every text,
\* a boolean value the texts that strconv.ParseBool accepts
Accepts(f, name, text) == isBoolFlag(f, name) => text \in Truthy \cup Falsy

\* C26: FlagSet.Set with a name that is not registered returns the error
\* that the flag does not exist and leaves every value and the set of names
\* that were set as they were; with a registered name it returns what the
\* Set of the flag's value returns, and when the value accepts the text the
\* flag holds it and the name is added to the names that were set, and when
\* it rejects the text nothing is recorded.
C26_SetContract ==
    call.op = "Set" =>
        IF ~Lookup(call.before, call.name)
        THEN parseErr = ErrNoSuchFlag(call.name) /\ fset = call.before
        ELSE IF Accepts(call.before, call.name, call.text)
        THEN /\ parseErr = NoErr
             /\ ValueOf(fset, call.name) = Held(call.before, call.name, call.text)
             /\ fset.actual = call.before.actual \cup {call.name}
             /\ fset.formal = call.before.formal
             /\ \A i \in DOMAIN fset.value :
                    i # fset.formal[call.name] => fset.value[i] = call.before.value[i]
        ELSE parseErr = ErrSyntax(call.text) /\ fset = call.before

\* C26 witness: output was set before, and Set("o", "x") on the boolean flag o
\* is rejected: o is not among the names that were set.
C26_Witness ==
    /\ call.op = "Set"
    /\ call.name = <<"o">>
    /\ call.text = TokX
    /\ Lookup(fset, <<"o">>)
    /\ isBoolFlag(fset, <<"o">>)
    /\ parseErr = ErrSyntax(TokX)
    /\ fset.actual = {NameOutput}

\* the names of f registered with the value instance of flag name
Aliases(f, name) == {m \in DOMAIN f.formal : f.formal[m] = f.formal[name]}

\* every name of f that shares its value instance with another name reads
\* the value of the last of the occurrences r.occs of any name of the instance
AliasesReadLast(f, r) ==
    (r.ok /\ Accepted(f, r.occs))
        => /\ parseErr = NoErr
           /\ \A n \in DOMAIN f.formal :
                Aliases(f, n) # {n} => ValueOf(fset, n) = LastValue(f, r.occs, n)

\* C27: names registered with the same value instance are aliases of one
\* value. After Set with one of them accepted a text every one of them reads
\* that text, and after the parse of a vector of flags and their values
\* every one of them reads the value of the last occurrence of any of them,
\* or the common default if none occurs.
C27_Aliases ==
    /\ (call.op = "Set" /\ Lookup(call.before, call.name) /\ parseErr = NoErr)
        => \A m \in Aliases(call.before, call.name) :
              ValueOf(fset, m) = Held(call.before, call.name, call.text)
    /\ call.op = "Parse" => AliasesReadLast(call.before, Occurrences(call.before, given))

\* C27 witness: o was registered with the value of output, and
\* `--output=test.out -o test-1.out` was parsed: both read test-1.out.
C27_Witness ==
    /\ call.op = "Parse"
    /\ given = <<TokOutputTestOut, TokShortO, TokTest1Out>>
    /\ Lookup(fset, NameOutput) /\ Lookup(fset, <<"o">>)
    /\ Aliases(call.before, NameOutput) = {NameOutput, <<"o">>}
    /\ parseErr = NoErr
    /\ ValueOf(fset, NameOutput) = TokTest1Out
    /\ ValueOf(fset, <<"o">>) = TokTest1Out
    /\ fset.actual = {NameOutput, <<"o">>}
    /\ fset.args = <<>>

\* ------------------------------------------------------------------------
\* A MapVar flag: Set with a text, then Set of a second, empty MapVar with
\* the String of the first
\* ------------------------------------------------------------------------

NameM == <<"m">>
NameM2 == <<"m", "2">>

\* fs.Var(mv, "m", "test") with the map mv, and the same with the empty map
\* mv2 (in the test on a flag set of its own, here as a second flag)
MapFlagSet(kind, m) ==
    NewFlagSet(
        [n \in {NameM, NameM2} |-> IF n = NameM THEN "mv" ELSE "mv2"],
        [i \in {"mv", "mv2"} |-> IF i = "mv" THEN MapValue(kind, m) ELSE MapValue(kind, {})])

\* the characters of the texts given to Set
MapChars == {"a", "=", ",", Quote, " ", "\\"}

MapTexts == SeqsUpTo(MapChars, MaxMapText)

\* MapVar{} and MapVar{"a": "aa"}
InitialMaps == { {}, {<< <<"a">>, <<"a", "a">> >>} }

InitMap ==
    /\ ops = [args |-> <<>>, interspersed |-> FALSE, bindEnv |-> FALSE, bindEnvPrefix |-> <<>>]
    /\ environ = <<>>
    /\ lifecycle = {}
    /\ ExecIdle
    /\ fset \in {MapFlagSet(kind, m) : kind \in {KindGetopt, KindScan}, m \in InitialMaps}
    /\ arguments = <<>>
    /\ given = <<>>
    /\ parseErr = NoErr
    /\ parsePc = "idle"
    /\ call = NoCall

\* fs.Set("m", text), which is mv.Set(text)
MapSet ==
    /\ call = NoCall
    /\ \E text \in MapTexts : SetReturns(Set(fset, NameM, text), NameM, text)
    /\ UNCHANGED <<arguments, given, parsePc>>
    /\ UNCHANGED execVars

ReparseReturns(r, text) ==
    /\ fset' = r.fs
    /\ parseErr' = r.err
    /\ call' = [op |-> "Reparse", name |-> NameM2, text |-> text, inst |-> <<>>,
                before |-> fset, panic |-> FALSE]

ReparseText(text) == ReparseReturns(Set(fset, NameM2, text), text)

\* after mv.Set succeeded: mv2.Set(mv.String())
MapReparse ==
    /\ call.op = "Set"
    /\ parseErr = NoErr
    /\ ReparseText(MapVar_String(FlagValue(fset, NameM)))
    /\ UNCHANGED <<arguments, given, parsePc>>
    /\ UNCHANGED execVars

NextMap == MapSet \/ MapReparse

SpecMap == InitMap /\ [][NextMap]_vars

\* C28 as stated: the String of a map that Set produced is accepted by Set
\* of an empty MapVar, which then holds the same keys and values.
C28_Original ==
    call.op = "Reparse"
        => /\ parseErr = NoErr
           /\ FlagValue(fset, NameM2).m = FlagValue(fset, NameM).m

\* the number of quotes in a text
RECURSIVE Quotes(_)
Quotes(text) ==
    IF text = <<>> THEN 0
    ELSE (IF Head(text) = Quote THEN 1 ELSE 0) + Quotes(Tail(text))

\* a quote that is never closed
UnterminatedQuote(text) == Quotes(text) % 2 = 1

\* a quote before the first `=`, or without any
QuoteInKey(text) ==
    /\ IndexByte(text, Quote) > 0
    /\ IndexByte(text, "=") = 0 \/ IndexByte(text, Quote) < IndexByte(text, "=")

\* a comma at the end
CommaWithoutKey(text) == text # <<>> /\ text[Len(text)] = ","

\* a text without `=`
PairWithoutEquals(text) == text # <<>> /\ IndexByte(text, "=") = 0

Malformed(text) ==
    \/ UnterminatedQuote(text)
    \/ QuoteInKey(text)
    \/ CommaWithoutKey(text)
    \/ PairWithoutEquals(text)

\* C29 as stated: Set with a text that has an unterminated quote, a quote in
\* the position of a key, a comma without a key after it or a pair without
\* `=` returns an error and leaves the map as it was.
C29_Original ==
    (call.op = "Set" /\ Malformed(call.text))
        => parseErr # NoErr /\ fset = call.before

\* ------------------------------------------------------------------------
\* The order of the hooks in every execution
\* ------------------------------------------------------------------------

\* the hooks before the k-th of the trace that belong to its frame or to a
\* deeper one
Deeper(k) == {j \in 1..(k - 1) : trace[j].frame >= trace[k].frame}

\* C30: at every moment of every execution, failed or not, the hooks invoked
\* so far are a prefix of the sequence Initialize of the frames 1..n that
\* have lifecycle hooks, Run of frame n, Destroy of the frames n..1 that
\* have lifecycle hooks. No hook is invoked twice, Run is invoked on the
\* last frame only, and when Destroy of a frame is invoked the Initialize
\* of that frame was invoked before and it and every hook of the deeper
\* frames returned nil.
C30_HookSequence ==
    /\ HasPrefix(FullLifecycle, Calls)
    /\ \A j, k \in 1..Len(trace) : j # k => Calls[j] # Calls[k]
    /\ \A k \in 1..Len(trace) : trace[k].hook = "Run" => trace[k].frame = Len(stack)
    /\ \A k \in 1..Len(trace) :
          trace[k].hook = "Destroy"
              => /\ \E j \in Deeper(k) : Calls[j] = <<"Initialize", trace[k].frame>>
                 /\ \A j \in Deeper(k) : trace[j].ret = NoErr

\* C30 witness: Execute returned after Destroy of the child failed below a
\* root with lifecycle hooks: four hooks of the five were invoked.
C30_Witness ==
    /\ pc = "returned"
    /\ Len(stack) = 2
    /\ {"root", "child"} \subseteq lifecycle
    /\ Len(trace) = 4
    /\ Last(trace).hook = "Destroy"
    /\ Last(trace).frame = 2
    /\ Last(trace).ret # NoErr
    /\ Len(FullLifecycle) = 5

\* ------------------------------------------------------------------------
\* A parse that fails
\* ------------------------------------------------------------------------

\* the first p tokens of toks read as occurrences of flags of f
ReadPrefix(f, toks, p) == Occurrences(f, SubSeq(toks, 1, p))

\* the number of leading tokens of toks that are occurrences of flags of f,
\* each with a value that its flag accepts
AppliedTokens(f, toks) ==
    Max({p \in 0..Len(toks) :
            /\ ReadPrefix(f, toks, p).ok
            /\ ReadPrefix(f, toks, p).residual = <<>>
            /\ Accepted(f, ReadPrefix(f, toks, p).occs)})

\* the boolean flags of f that lead the characters of a cluster
RECURSIVE LeadingBooleans(_, _)
LeadingBooleans(f, chars) ==
    IF chars = <<>> \/ ~Lookup(f, <<Head(chars)>>) THEN <<>>
    ELSE IF ~isBoolFlag(f, <<Head(chars)>>) THEN <<>>
    ELSE << [name |-> <<Head(chars)>>, text |-> TextTrue] >> \o LeadingBooleans(f, Tail(chars))

\* the occurrences inside token tok, at which the parse fails, that stand
\* before the point of failure
AppliedInside(f, tok) ==
    IF IsShort(tok) THEN LeadingBooleans(f, Tail(tok)) ELSE <<>>

\* the occurrences of flags of f in toks that stand before the point at which
\* the parse of toks fails
AppliedBefore(f, toks) ==
    ReadPrefix(f, toks, AppliedTokens(f, toks)).occs
        \o AppliedInside(f, toks[AppliedTokens(f, toks) + 1])

\* the flags of the parsed set hold what the occurrences occs leave
LeftBy(f, occs) ==
    /\ fset.actual = {occs[k].name : k \in 1..Len(occs)}
    /\ \A n \in DOMAIN f.formal : ValueOf(fset, n) = LastValue(f, occs, n)

\* C31: when Parse returns an error, the flags hold exactly what the flag
\* occurrences before the point of failure leave, in their order: every
\* occurrence in the tokens before the failing token and every boolean flag
\* of the failing cluster before the failing character is applied, and
\* nothing of the failing token's rest or of a later token is.
C31_StopsAtFirstFailure ==
    (parsePc = "parsed" /\ parseErr # NoErr)
        => /\ AppliedTokens(InitialFlagSet, given) < Len(given)
           /\ LeftBy(InitialFlagSet, AppliedBefore(InitialFlagSet, given))

\* C31 witness: `-Oh --output x` was parsed with h not defined by the
\* application: O is set, the parse failed with ErrHelp and output keeps its
\* default.
C31_Witness ==
    /\ parsePc = "parsed"
    /\ given = <<TokBigOH, TokOutput, TokX>>
    /\ ~Lookup(fset, NameH)
    /\ parseErr = ErrHelp
    /\ ValueOf(fset, <<"O">>) = TextTrue
    /\ ValueOf(fset, NameOutput) = <<"-">>
    /\ fset.actual = {<<"O">>}

\* ------------------------------------------------------------------------
\* Help and the hooks
\* ------------------------------------------------------------------------

\* the command registers no help flag itself
AutomaticHelp(cmd) == NameH \notin Range(InitializeFlags(cmd)) /\ NameHelp \notin Range(InitializeFlags(cmd))

\* tok is the string flag o, which the command registers, without its value
TakesValue(cmd, tok) == tok = TokO /\ <<"o">> \in Range(InitializeFlags(cmd))

\* tok is a long flag that the command registers, with its value after `=`
HasInlineValue(cmd, tok) ==
    /\ IsLong(tok)
    /\ FirstEquals(LongText(tok)) # 0
    /\ LongName(tok) \in Range(InitializeFlags(cmd))

\* `-h` or `--help` stands among toks where a flag of cmd or of one of the
\* commands named after it is read: after flags with their values, after the
\* name of a subcommand (also one that follows `--`), and, with interspersed
\* parsing, after arguments of a command without subcommands
RECURSIVE HelpGiven(_, _, _)
RECURSIVE HelpGivenAfter(_, _, _)
HelpGiven(cmd, toks, interspersed) ==
    IF toks = <<>> \/ ~AutomaticHelp(cmd) THEN FALSE
    ELSE IF Head(toks) \in {TokH, TokHelp} THEN TRUE
    ELSE IF TakesValue(cmd, Head(toks))
    THEN Len(toks) > 1 /\ HelpGiven(cmd, Tail(Tail(toks)), interspersed)
    ELSE IF HasInlineValue(cmd, Head(toks)) THEN HelpGiven(cmd, Tail(toks), interspersed)
    ELSE IF Head(toks) = TokDashDash THEN HelpGivenAfter(cmd, Tail(toks), interspersed)
    ELSE IF IsArgument(Head(toks)) THEN HelpGivenAfter(cmd, toks, interspersed)
    ELSE FALSE

\* the same for toks that begin with an argument of cmd
HelpGivenAfter(cmd, toks, interspersed) ==
    IF toks = <<>> THEN FALSE
    ELSE IF \E i \in 1..Len(Subcommands(cmd)) : Name(Subcommands(cmd)[i]) = Head(toks)
    THEN HelpGiven(CHOOSE sub \in Range(Subcommands(cmd)) : Name(sub) = Head(toks),
                   Tail(toks), interspersed)
    ELSE Subcommands(cmd) = <<>> /\ interspersed /\ HelpGiven(cmd, Tail(toks), interspersed)

\* C32: when `-h` or `--help` is given at a level of the command line whose
\* command does not define those flags itself, Execute invokes no Initialize,
\* Run or Destroy hook of any command.
C32_HelpRunsNoHook ==
    HelpGiven(RootCommand, ops.args, ops.interspersed) => trace = <<>>

\* C32 witness: Execute returned for `-h child` with hooks on root and child:
\* the usage of child was rendered and no hook was invoked.
C32_Witness ==
    /\ pc = "returned"
    /\ ops.args = <<TokH, TokChild>>
    /\ {"root", "child"} \subseteq lifecycle
    /\ Len(stack) = 2
    /\ stack[1].showHelp
    /\ rendered = <<"child">>
    /\ trace = <<>>

\* ------------------------------------------------------------------------
\* Interspersed parsing and commands with subcommands
\* ------------------------------------------------------------------------

\* the tokens of its input that level i consumed as flags and their values
Consumed(i) == SubSeq(LevelInput(i), 1, Len(LevelInput(i)) - Len(stack[i].args))

\* token tok spells flag name, with or without a value
Spells(tok, name) ==
    \/ IsLong(tok) /\ LongName(tok) = name
    \/ IsShort(tok) /\ Len(name) = 1 /\ name[1] \in Range(Tail(tok))

\* level i was parsed up to its first argument only: its residual is the
\* rest of its input from the token at which one scan of the input from the
\* left stops, its registry is what that scan leaves, and every flag that
\* was set is spelled by a token before the residual
ParsedToFirstArgument(i) ==
    /\ IsSuffix(stack[i].args, LevelInput(i))
    /\ stack[i].args = Parse(FrameFlagSet(stack[i].cmd), LevelInput(i)).fs.args
    /\ Registry(stack[i].fs) = Registry(Parse(FrameFlagSet(stack[i].cmd), LevelInput(i)).fs)
    /\ \A n \in stack[i].fs.actual :
         \E k \in 1..Len(Consumed(i)) : Spells(Consumed(i)[k], n)

\* C33: with interspersed parsing enabled, a command that has a subcommand is
\* parsed up to its first argument only: no token that stands after that
\* argument, a subcommand name or not, is applied to the command's registry,
\* and all of them are left in the residual.
C33_SubcommandsNotInterspersed ==
    (stack # <<>> /\ ops.interspersed)
        => \A i \in 1..Len(stack) :
               Subcommands(stack[i].cmd) # <<>> => ParsedToFirstArgument(i)

\* C33 witness: `child tail --c=2` ran with interspersed parsing: child, which
\* has a subcommand, is the leaf, its flag c was not set and Run got
\* [tail --c=2].
C33_Witness ==
    /\ pc = "returned"
    /\ ops.interspersed
    /\ ops.args = <<TokChild, TokTail, TokC2>>
    /\ Len(stack) = 2
    /\ stack[2].fs.actual = {}
    /\ ValueOf(stack[2].fs, <<"c">>) = <<>>
    /\ trace # <<>>
    /\ Last(trace).hook = "Run"
    /\ Last(trace).args = <<TokTail, TokC2>>

\* ------------------------------------------------------------------------
\* The argument lists of the frames
\* ------------------------------------------------------------------------

\* t is s without one or more of its first tokens
IsProperSuffix(t, s) == IsSuffix(t, s) /\ Len(t) < Len(s)

\* C34: without interspersed parsing the argument list of every frame is a
\* suffix of the argument vector given to Execute, the list of a frame below
\* the root is a suffix of the list of the frame above it, shorter by the
\* subcommand name at least, and every hook is called with the list of its
\* frame.
C34_ArgumentSuffixes ==
    (stack # <<>> /\ ~ops.interspersed)
        => /\ \A i \in 1..Len(stack) : IsSuffix(stack[i].args, ops.args)
           /\ \A i \in 2..Len(stack) : IsProperSuffix(stack[i].args, stack[i - 1].args)
           /\ \A k \in 1..Len(trace) : trace[k].args = stack[trace[k].frame].args

\* C34 witness: the stack of `--r=1 child --c=2 grandchild --g=3 tail` was
\* built without interspersed parsing: the lists are the vector from child
\* on, from grandchild on, and [tail].
C34_Witness ==
    /\ pc = "execute"
    /\ ~ops.interspersed
    /\ ops.args = ExampleArgs
    /\ Len(stack) = 3
    /\ stack[1].args = SubSeq(ExampleArgs, 2, 6)
    /\ stack[2].args = SubSeq(ExampleArgs, 4, 6)
    /\ stack[3].args = <<TokTail>>

\* ------------------------------------------------------------------------
\* buildCallStack one step at a time, for a command tree with cycles
\* ------------------------------------------------------------------------

BuildTokens == {TokPing, TokPong, TokGrandchild, TokO, TokTail, TokDashDash, TokDash}

\* buildCallStack at the top of its loop for command cmd, with args to parse
AtLevel(cmd, args) == [op |-> "buildCallStack", cmd |-> cmd, args |-> args, processed |-> <<>>]

InitBuild ==
    /\ ops \in [args : SeqsUpTo(BuildTokens, MaxBuildArgs), interspersed : BOOLEAN,
                bindEnv : {FALSE}, bindEnvPrefix : {<<>>}]
    /\ environ = <<>>
    /\ lifecycle = {}
    /\ ExecIdle
    /\ ParseIdle

\* Execute calls buildCallStack for ping
BuildCall ==
    /\ parsePc = "idle"
    /\ call' = AtLevel(PingCommand, ops.args)
    /\ parsePc' = "loop"
    /\ UNCHANGED <<fset, arguments, given, parseErr>>
    /\ UNCHANGED execVars

\* the loop of buildCallStack after the flags of the frame were bound to the
\* environment with result b: parseArgs is entered
LevelBound(b) ==
    IF b.err # NoErr
    THEN /\ parseErr' = b.err
         /\ parsePc' = "built"
         /\ UNCHANGED fset
    ELSE /\ fset' = b.fs
         /\ parsePc' = "parseArgs"
         /\ UNCHANGED parseErr

\* an iteration of the loop of buildCallStack, up to the loop of parseArgs:
\* the flag set of the frame is made and the flags are registered and bound
LevelBegin ==
    /\ parsePc = "loop"
    /\ IF Redefined(call.cmd)
       THEN parsePc' = "panicked" /\ UNCHANGED <<fset, parseErr>>
       ELSE IF ops.bindEnv
       THEN \E reuse \in AppendReuses :
                LevelBound(bindEnvironmentFlags(stack, call.cmd, FrameFlagSet(call.cmd),
                                                Options(reuse)))
       ELSE LevelBound([fs |-> FrameFlagSet(call.cmd), err |-> NoErr])
    /\ UNCHANGED <<arguments, given, call>>
    /\ UNCHANGED execVars

\* the frame of the level is appended with args as its arguments, and
\* buildCallStack goes on with the subcommand that the first of them names
\* or returns
LevelEnd(args) ==
    /\ stack' = Append(stack, Frame(call.cmd, [fs |-> fset, args |-> args]))
    /\ IF Len(args) > 0 /\ Head(args) \in DOMAIN collectSubcommands(call.cmd)
       THEN /\ call' = AtLevel(collectSubcommands(call.cmd)[Head(args)], Tail(args))
            /\ parsePc' = "loop"
       ELSE /\ call' = [call EXCEPT !.args = args]
            /\ parsePc' = "built"
    /\ UNCHANGED <<fset, arguments, given, parseErr>>
    /\ UNCHANGED <<ops, environ, lifecycle, pc, pos, phase, err, trace, result, rendered,
                   exitStatus, cancelled>>

\* the loop of parseArgs with no argument left: parseArgs returns processed
ParseArgsReturn ==
    /\ parsePc = "parseArgs"
    /\ Len(call.args) = 0
    /\ LevelEnd(call.processed)

\* the loop of parseArgs calls fp.Parse, which enters parse
ParseArgsCall ==
    /\ parsePc = "parseArgs"
    /\ Len(call.args) > 0
    /\ fset' = [fset EXCEPT !.parsed = TRUE]
    /\ arguments' = call.args
    /\ parsePc' = "parse"
    /\ UNCHANGED <<given, parseErr, call>>
    /\ UNCHANGED execVars

\* parseArgs parses interspersed: only for a command without subcommands
Interspersed(cmd) == ops.interspersed /\ Cardinality(DOMAIN collectSubcommands(cmd)) = 0

\* fp.Parse returned an error: parseArgs and buildCallStack return it
ParseFailed ==
    /\ parsePc = "parsed"
    /\ parseErr # NoErr
    /\ stack' = <<>>
    /\ parsePc' = "built"
    /\ UNCHANGED <<fset, arguments, given, parseErr, call>>
    /\ UNCHANGED <<ops, environ, lifecycle, pc, pos, phase, err, trace, result, rendered,
                   exitStatus, cancelled>>

\* fp.Parse returned nil and parseArgs returns fp.Args()
ParsedPosix ==
    /\ parsePc = "parsed"
    /\ parseErr = NoErr
    /\ ~Interspersed(call.cmd)
    /\ LevelEnd(fset.args)

\* fp.Parse returned nil and parseArgs moves the first argument to processed
ParsedInterspersed ==
    /\ parsePc = "parsed"
    /\ parseErr = NoErr
    /\ Interspersed(call.cmd)
    /\ call' = IF Len(fset.args) > 0
               THEN [call EXCEPT !.args = Tail(fset.args),
                                 !.processed = Append(@, Head(fset.args))]
               ELSE [call EXCEPT !.args = fset.args]
    /\ parsePc' = "parseArgs"
    /\ UNCHANGED <<fset, arguments, given, parseErr>>
    /\ UNCHANGED execVars

NextBuild ==
    \/ BuildCall \/ LevelBegin \/ ParseArgsReturn \/ ParseArgsCall \/ ParseArg
    \/ ParseReturn \/ ParseFailed \/ ParsedPosix \/ ParsedInterspersed

SpecBuild == InitBuild /\ [][NextBuild]_vars

\* a call that has not returned goes on: the program runs until it returns
SpecBuildLive == SpecBuild /\ WF_vars(NextBuild)

\* buildCallStack returned or panicked
Built == parsePc \in {"built", "panicked"}

\* an iteration of the loop of parse that does not return leaves fewer
\* arguments to scan, and one that returns leaves a residual that is a
\* suffix of them
ParserStepConsumes ==
    parsePc = "parse"
        => /\ parsePc' = "parse" => Len(arguments') < Len(arguments)
           /\ (parsePc' = "parsed" /\ parseErr' = NoErr) => IsSuffix(fset'.args, arguments)

\* an iteration of the loop of parseArgs that does not return leaves fewer
\* arguments to parse
ParseArgsStepConsumes ==
    (parsePc = "parsed" /\ parsePc' = "parseArgs") => Len(call'.args) < Len(call.args)

\* a descent to a subcommand takes the name of the subcommand from the
\* residual of the level above and leaves fewer arguments than that level had
DescentConsumes ==
    (parsePc \in {"parsed", "parseArgs"} /\ parsePc' = "loop")
        => /\ Last(stack').args # <<>>
           /\ Head(Last(stack').args) = Name(call'.cmd)
           /\ call'.args = Tail(Last(stack').args)
           /\ Len(call'.args) < Len(call.args)

\* the call stack has no more frames than the vector has tokens, plus one
FramesBound == Len(stack) <= Len(ops.args) + 1

\* C35: for every argument vector, and a command tree whose subcommands
\* form cycles, buildCallStack returns: every step of the parser that does
\* not return consumes a token, every descent consumes the name of the
\* subcommand, and the call stack never has more frames than the vector has
\* tokens, plus one.
C35_Termination ==
    /\ [][ParserStepConsumes /\ ParseArgsStepConsumes /\ DescentConsumes]_vars
    /\ []FramesBound
    /\ <>Built

\* C35 witness: buildCallStack returned for `pong pong ping` given to ping:
\* the stack has four frames, one more than the vector has tokens.
C35_Witness ==
    /\ parsePc = "built"
    /\ ops.args = <<TokPong, TokPong, TokPing>>
    /\ [i \in 1..Len(stack) |-> stack[i].cmd]
         = <<PingCommand, PongCommand, PongCommand, PingCommand>>
    /\ Last(stack).args = <<>>

\* ------------------------------------------------------------------------
\* Hidden flags
\* ------------------------------------------------------------------------

HideTokens == {TokBigO, TokShortO, TokShortOY, TokOutput, TokX, TokDashDash}

\* PosixFlagSet.PrintDefaults: the names of the flags it lists, in order
PrintDefaults(f) ==
    LET Listed(name) == ~isHiddenFlag(f, name)
    IN SelectSeq(VisitAll(f), Listed)

\* the flags output, o and O are registered; Hide and Parse are to come
InitHide ==
    /\ ops = [args |-> <<>>, interspersed |-> FALSE, bindEnv |-> FALSE, bindEnvPrefix |-> <<>>]
    /\ environ = <<>>
    /\ lifecycle = {}
    /\ ExecIdle
    /\ fset = TestFlagSet({})
    /\ given \in SeqsUpTo(HideTokens, MaxHideArgs)
    /\ arguments = <<>>
    /\ parseErr = NoErr
    /\ parsePc = "idle"
    /\ call = NoCall

\* getopt.Hide(fs.Lookup(name)) before Parse
HideCall ==
    /\ parsePc = "idle"
    /\ \E name \in DOMAIN fset.formal \ fset.hidden :
         /\ fset' = Hide(fset, name)
         /\ call' = [op |-> "Hide", name |-> name]
    /\ UNCHANGED <<arguments, given, parseErr, parsePc>>
    /\ UNCHANGED execVars

NextHide == HideCall \/ ParseCall \/ ParseArg \/ ParseReturn

SpecHide == InitHide /\ [][NextHide]_vars

\* C36 as stated: the parse of a vector by a flag set some of whose flags are
\* hidden leaves the same flag values, the same flags set, the same residual
\* and the same error as the parse of the vector by the flag set with no
\* flag hidden.
C36_Original ==
    parsePc = "parsed" => Outcome(fset, parseErr) = OutcomeOf(Parse(TestFlagSet({}), given))

\* ------------------------------------------------------------------------
\* Help and the environment
\* ------------------------------------------------------------------------

EnvHelpTokens == {TokBindEnv, TokShow, TokH}

VarRootH == <<"R", "O", "O", "T", "_", "H">>
VarRootHelp == <<"R", "O", "O", "T", "_", "H", "E", "L", "P">>
VarShowHelp == <<"R", "O", "O", "T", "_", "B", "I", "N", "D", "E", "N", "V", "_", "S", "H", "O", "W", "_", "H", "E", "L", "P">>

\* environments with a variable that has the name of a help flag
HelpEnvironments ==
    { <<>>,
      Setenv(VarRootH, TextTrue),
      Setenv(VarRootHelp, TextTrue),
      Setenv(VarShowHelp, TextTrue),
      Setenv(EnvPrefix \o VarRootHelp, <<"1">>) }

InitEnvHelp ==
    /\ ops \in [args : SeqsUpTo(EnvHelpTokens, MaxEnvArgs), interspersed : {FALSE},
                bindEnv : BOOLEAN, bindEnvPrefix : {<<>>, EnvPrefix}]
    /\ ops.bindEnv \/ ops.bindEnvPrefix = <<>>
    /\ environ \in HelpEnvironments
    /\ lifecycle \in SUBSET {RootCommand}
    /\ ExecIdle
    /\ ParseIdle

SpecEnvHelp == InitEnvHelp /\ [][Next]_vars

\* C37 as stated: with environment binding, when neither `-h` nor `--help` is
\* given on the command line, no help flag of a frame is set and no usage
\* text is rendered in place of the hooks, whatever the environment holds.
C37_Original ==
    (ops.bindEnv /\ stack # <<>> /\ ~HelpGiven(RootCommand, ops.args, ops.interspersed))
        => /\ ~helpRequested(stack)
           /\ pc = "returned" => trace # <<>>

====
